---- MODULE Spec2Model ----
(***************************************************************************)
(* A model of the portier broker's trust bridge: e-mail address            *)
(* normalisation (email_address.rs), JWS signing and verification          *)
(* (crypto.rs), the OpenID Connect bridge (bridges/oidc.rs), webfinger     *)
(* discovery (webfinger.rs) and the normalization endpoint                 *)
(* (handlers/normalize.rs).                                                *)
(*                                                                         *)
(* Text is modelled as a sequence of characters, each character a string   *)
(* of length one ("NUL" stands for the character U+0000).  Byte strings    *)
(* are sequences of byte values.                                           *)
(***************************************************************************)
EXTENDS Integers, Sequences, FiniteSets, TLC

(***************************************************************************)
(* Bounds of the model.                                                    *)
(***************************************************************************)
\* Longest big-endian byte string of an RSA component (e or n).
MaxBytes == 2
\* Most entries of a JWK key set handed to verify_jws.
MaxKeySet == 2
\* Most signing keys a configuration lists.
MaxKeys == 3
\* Most tokens create_jwt has issued that the model remembers.
MaxMinted == 2
\* auth() flows that may be in flight at once.
MaxFlows == 2
\* callback() handlers that may be in flight at once.
MaxCallbacks == 2

(***************************************************************************)
(* email_address.rs                                                        *)
(***************************************************************************)
UpperChars == <<"A", "B", "C", "E", "G", "I", "L", "M", "O", "X">>
LowerChars == <<"a", "b", "c", "e", "g", "i", "l", "m", "o", "x">>

\* A case mapping that also turns lower case into upper case.
SwapCaseChar(c) ==
    IF \E i \in 1..Len(UpperChars) : UpperChars[i] = c
    THEN LowerChars[CHOOSE i \in 1..Len(UpperChars) : UpperChars[i] = c]
    ELSE IF \E i \in 1..Len(LowerChars) : LowerChars[i] = c
    THEN UpperChars[CHOOSE i \in 1..Len(LowerChars) : LowerChars[i] = c]
    ELSE c

\* char::to_lowercase on the model's alphabet.
ToLowerChar(c) ==
    IF \E i \in 1..Len(UpperChars) : UpperChars[i] = c
    THEN LowerChars[CHOOSE i \in 1..Len(UpperChars) : UpperChars[i] = c]
    ELSE c

\* str::to_lowercase.
ToLowercase(s) == [i \in 1..Len(s) |-> ToLowerChar(s[i])]

IsInvalidDomainChar(c) ==
    c \in {"NUL", "\t", "\n", "\r", " ", "#", "%", "/", ":", "?", "@", "[", "\\", "]"}

\* str::rfind(char): the last position of c in s, 0 when there is none.
RFind(s, c) ==
    IF \E i \in 1..Len(s) : s[i] = c
    THEN CHOOSE i \in 1..Len(s) : s[i] = c /\ \A j \in (i + 1)..Len(s) : s[j] # c
    ELSE 0

\* str::find(char): the first position of c in s, 0 when there is none.
Find(s, c) ==
    IF \E i \in 1..Len(s) : s[i] = c
    THEN CHOOSE i \in 1..Len(s) : s[i] = c /\ \A j \in 1..(i - 1) : s[j] # c
    ELSE 0

\* str::replace(c, ""): s without its occurrences of c.
RECURSIVE RemoveChar(_, _)
RemoveChar(s, c) ==
    IF s = <<>> THEN <<>>
    ELSE IF Head(s) = c THEN RemoveChar(Tail(s), c)
    ELSE <<Head(s)>> \o RemoveChar(Tail(s), c)

\* str::split('.') of a domain: the labels between the dots.
RECURSIVE SplitDots(_)
SplitDots(s) ==
    LET p == Find(s, ".")
    IN IF p = 0 THEN <<s>>
       ELSE <<SubSeq(s, 1, p - 1)>> \o SplitDots(SubSeq(s, p + 1, Len(s)))

DigitChars == <<"1", "2", "3", "4", "5", "6", "7", "8", "9">>

DigitValue(c) == CHOOSE i \in 1..Len(DigitChars) : DigitChars[i] = c

IsDigit(c) == \E i \in 1..Len(DigitChars) : DigitChars[i] = c

RECURSIVE DecimalValue(_)
DecimalValue(s) ==
    IF s = <<>> THEN 0
    ELSE 10 * DecimalValue(SubSeq(s, 1, Len(s) - 1)) + DigitValue(s[Len(s)])

\* One octet of a dotted quad: 1 to 3 decimal digits worth at most 255.  The
\* alphabet holds no "0", so the question of leading zeros does not arise.
IsOctet(s) ==
    /\ Len(s) \in 1..3
    /\ \A i \in 1..Len(s) : IsDigit(s[i])
    /\ DecimalValue(s) <= 255

\* domain.parse::<std::net::Ipv4Addr>().is_ok()
IsIpv4(domain) ==
    LET parts == SplitDots(domain)
    IN Len(parts) = 4 /\ \A i \in 1..4 : IsOctet(parts[i])

\* idna::domain_to_ascii on an ASCII domain: UTS 46 maps upper case to lower
\* case and lets every other ASCII character through (STD3 rules are off).
DomainToAscii(domain) == [ok |-> TRUE, val |-> ToLowercase(domain)]

NoAddr == [serialization |-> <<>>, local_end |-> 0]

\* EmailAddress::from_parts
FromParts(local, domain) ==
    [serialization |-> local \o <<"@">> \o domain, local_end |-> Len(local)]

\* EmailAddress::as_str
AsStr(addr) == addr.serialization

\* EmailAddress::local
Local(addr) == SubSeq(addr.serialization, 1, addr.local_end)

\* EmailAddress::domain
Domain(addr) == SubSeq(addr.serialization, addr.local_end + 2, Len(addr.serialization))

ParseErr(e) == [ok |-> FALSE, err |-> e, addr |-> NoAddr]

\* <EmailAddress as FromStr>::from_str
Parse(input) ==
    LET local_end == RFind(input, "@")
        local == ToLowercase(SubSeq(input, 1, local_end - 1))
        ascii == DomainToAscii(SubSeq(input, local_end + 1, Len(input)))
        domain == ascii.val
    IN IF local_end = 0 THEN ParseErr("NoSeparator")
       ELSE IF local = <<>> THEN ParseErr("EmptyLocal")
       ELSE IF ~ascii.ok THEN ParseErr("InvalidIdna")
       ELSE IF domain = <<>> THEN ParseErr("EmptyDomain")
       ELSE IF \E i \in 1..Len(domain) : IsInvalidDomainChar(domain[i])
            THEN ParseErr("InvalidDomainChars")
       ELSE IF IsIpv4(domain) THEN ParseErr("RawAddrNotAllowed")
       ELSE [ok |-> TRUE, err |-> "", addr |-> FromParts(local, domain)]

GoogleMailCom == <<"g", "o", "o", "g", "l", "e", "m", "a", "i", "l", ".", "c", "o", "m">>
GMailCom == <<"g", "m", "a", "i", "l", ".", "c", "o", "m">>

\* normalize_google trimming the local part at its last '+'.
NormalizeGoogleLastPlus(addr) ==
    LET domain == IF Domain(addr) = GoogleMailCom THEN GMailCom ELSE Domain(addr)
        pos == RFind(Local(addr), "+")
        trimmed == IF pos # 0 THEN SubSeq(Local(addr), 1, pos - 1) ELSE Local(addr)
    IN FromParts(RemoveChar(trimmed, "."), domain)

\* EmailAddress::normalize_google
NormalizeGoogle(addr) ==
    LET domain == IF Domain(addr) = GoogleMailCom THEN GMailCom ELSE Domain(addr)
        pos == Find(Local(addr), "+")
        trimmed == IF pos # 0 THEN SubSeq(Local(addr), 1, pos - 1) ELSE Local(addr)
    IN FromParts(RemoveChar(trimmed, "."), domain)

(***************************************************************************)
(* JSON values (serde_json::Value).  A member that holds text carries it   *)
(* as a TLA+ string (JStr) or, for an e-mail address, as a character       *)
(* sequence (EStr); JNull and ENull stand for a member that is absent.     *)
(***************************************************************************)
JStr(s) == [t |-> "str", s |-> s, i |-> 0]
JInt(i) == [t |-> "int", s |-> "", i |-> i]
JNull == [t |-> "null", s |-> "", i |-> 0]
EStr(cs) == [t |-> "str", cs |-> cs]
ENull == [t |-> "null", cs |-> <<>>]
\* A member that is present and not a string (here: a JSON boolean).
EBool == [t |-> "bool", cs |-> <<>>]

(***************************************************************************)
(* crypto.rs                                                               *)
(*                                                                         *)
(* An RSA key is the pair of its public components, each the big-endian    *)
(* byte string BigNum::to_vec returns; the model's bytes are never zero,   *)
(* so BigNum::from_slice and to_vec are inverse to each other.  The        *)
(* private half is held by whoever holds the NamedKey.  A signature names  *)
(* the key that made it and the bytes it was made over (RSASSA-PKCS1-v1_5  *)
(* is taken to be unforgeable), and SHA-256 is taken to be collision-free. *)
(***************************************************************************)
\* b'.', the byte fed to the hasher between e and n.
DotByte == 46
ByteVals == {1, DotByte}
ByteStrings == UNION {[1..len -> ByteVals] : len \in 1..MaxBytes}
RsaKeys == [e : ByteStrings, n : ByteStrings]

\* The digest of a byte string (Hasher::finish2 with MessageDigest::sha256).
Sha256(bytes) == [sha256 |-> bytes]

\* ToBase64::to_base64(base64::URL_SAFE): the canonical, unpadded encoding.
ToBase64(bytes) == [form |-> "canon", bytes |-> bytes]
\* Another text FromBase64 decodes to the same bytes (padded, or with a line break).
PaddedBase64(bytes) == [form |-> "padded", bytes |-> bytes]
\* Text that is not base64.
BadBase64(bytes) == [form |-> "bad", bytes |-> bytes]

\* FromBase64::from_base64
FromBase64(text) == [ok |-> text.form # "bad", val |-> text.bytes]

\* The id NamedKey::from_rsa computes.
KidOf(rsa) == ToBase64(Sha256(rsa.e \o <<DotByte>> \o rsa.n))

\* NamedKey::from_rsa
FromRsa(rsa) == [id |-> KidOf(rsa), key |-> rsa]

SomeKid(kid) == [some |-> TRUE, v |-> kid]
NoKid == [some |-> FALSE, v |-> ToBase64(Sha256(<<>>))]
SomeStr(s) == [some |-> TRUE, v |-> s]
NoStr == [some |-> FALSE, v |-> ""]
SomeText(text) == [some |-> TRUE, v |-> text]
NoText == [some |-> FALSE, v |-> ToBase64(<<>>)]

\* Value::to_string().as_bytes(): the JSON text of a value.
JsonText(value) == [kind |-> "json", val |-> value]
\* Bytes that are not JSON.
JunkBytes == [kind |-> "junk", val |-> [junk |-> TRUE]]

\* serde_json::de::from_slice
FromSlice(bytes) == [ok |-> bytes.kind = "json", val |-> bytes.val]

\* Signer::update(input) and finish() with the key's private half.
RsaSign(rsa, input) == [kind |-> "sig", val |-> [by |-> rsa, over |-> input]]

\* Verifier::update(message) and finish(signature) with a public key.
RsaVerify(rsa, message, signature) ==
    /\ signature.kind = "sig"
    /\ signature.val.by = rsa
    /\ signature.val.over = message

\* The header NamedKey::sign_jws builds.
JwsHeader(kid) == [kid |-> SomeKid(kid), alg |-> "RS256"]

\* NamedKey::sign_jws.  A compact JWS is modelled by its '.'-separated
\* segments: the base64 alphabet holds no '.', so the text and the list
\* str::split('.') makes of it determine each other.
SignJws(key, payload) ==
    LET input == <<ToBase64(JsonText(JwsHeader(key.id))), ToBase64(JsonText(payload))>>
    IN input \o <<ToBase64(RsaSign(key.key, input))>>

\* NamedKey::public_jwk
PublicJwk(key) ==
    [kty |-> "RSA", alg |-> "RS256", use |-> SomeStr("sig"), kid |-> SomeKid(key.id),
     n |-> SomeText(ToBase64(key.key.n)), e |-> SomeText(ToBase64(key.key.e))]

FindErr == [ok |-> FALSE, key |-> [e |-> <<>>, n |-> <<>>]]

\* The filter of jwk_key_set_find matching on the kid alone.
MatchingAnyUse(keys, kid) ==
    LET Test(key_obj) == key_obj.kid = SomeKid(kid)
    IN SelectSeq(keys, Test)

\* The filter of jwk_key_set_find with only its first match kept.
MatchingFirst(keys, kid) ==
    LET Test(key_obj) == key_obj.kid = SomeKid(kid) /\ key_obj.use = SomeStr("sig")
        found == SelectSeq(keys, Test)
    IN IF found = <<>> THEN <<>> ELSE <<Head(found)>>

\* The entries jwk_key_set_find keeps: kid and use both match.
Matching(keys, kid) ==
    LET Test(key_obj) == key_obj.kid = SomeKid(kid) /\ key_obj.use = SomeStr("sig")
    IN SelectSeq(keys, Test)

\* jwk_key_set_find
JwkKeySetFind(set, kid) ==
    IF ~set.keys.some THEN FindErr
    ELSE LET matching == Matching(set.keys.v, kid)
         IN IF Len(matching) # 1 THEN FindErr
            ELSE LET n == matching[1].n
                     e == matching[1].e
                 IN IF ~n.some \/ ~FromBase64(n.v).ok THEN FindErr
                    ELSE IF ~e.some \/ ~FromBase64(e.v).ok THEN FindErr
                    ELSE [ok |-> TRUE,
                          key |-> [e |-> FromBase64(e.v).val, n |-> FromBase64(n.v).val]]

VerifyErr == [ok |-> FALSE, val |-> [none |-> TRUE]]

\* A verifier that is handed the header segment alone.
SignedMessageHeaderOnly(parts) == <<parts[1]>>

\* The bytes verify_jws hands to the verifier: jws[..message_len].
SignedMessage(parts) == <<parts[1], parts[2]>>

\* verify_jws
VerifyJws(jws, key_set) ==
    IF Len(jws) # 3 THEN VerifyErr
    ELSE IF \E i \in 1..3 : ~FromBase64(jws[i]).ok THEN VerifyErr
    ELSE LET decoded == [i \in 1..3 |-> FromBase64(jws[i]).val]
             jwt_header == FromSlice(decoded[1])
         IN IF ~jwt_header.ok THEN VerifyErr
            ELSE IF ~jwt_header.val.kid.some THEN VerifyErr
            ELSE LET pub_key == JwkKeySetFind(key_set, jwt_header.val.kid.v)
                 IN IF ~pub_key.ok THEN VerifyErr
                    ELSE IF ~RsaVerify(pub_key.key, SignedMessage(jws), decoded[3])
                         THEN VerifyErr
                    ELSE IF ~FromSlice(decoded[2]).ok THEN VerifyErr
                    ELSE [ok |-> TRUE, val |-> FromSlice(decoded[2]).val]

\* The payload create_jwt builds.
JwtPayload(app, email, origin, nonce, now) ==
    [aud |-> JStr(origin), email |-> EStr(AsStr(email)),
     email_verified |-> EStr(AsStr(email)), exp |-> JInt(now + app.token_ttl),
     iat |-> JInt(now), iss |-> JStr(app.public_url), sub |-> EStr(AsStr(email)),
     nonce |-> JStr(nonce)]

\* The key create_jwt signs with: app.keys.last().
SigningKey(app) == app.keys[Len(app.keys)]

\* create_jwt
CreateJwt(app, email, origin, nonce, now) ==
    SignJws(SigningKey(app), JwtPayload(app, email, origin, nonce, now))

(***************************************************************************)
(* Sample data of the crypto specifications.                               *)
(***************************************************************************)
PublicUrl == "https://broker.example"
\* app.token_ttl, in seconds.
TokenTtl == 600
\* The clock reading now_utc().to_timespec().sec.
Now == 1000

\* Three RSA keys; the hash inputs of the first two coincide.
SampleRsa ==
    {[e |-> <<1>>, n |-> <<DotByte, 1>>],
     [e |-> <<1, DotByte>>, n |-> <<1>>],
     [e |-> <<1>>, n |-> <<1>>]}

RequestedRaw == <<"A", ".", "b", "+", "c", "@">> \o GoogleMailCom
OtherRaw == <<"x", "@">> \o GMailCom

\* The address of the login attempt, as the broker parsed it.
RequestedEmail == Parse(RequestedRaw).addr

SampleApp == [public_url |-> PublicUrl, token_ttl |-> TokenTtl]

SamplePayloads ==
    {JwtPayload(SampleApp, Parse(raw).addr, "https://rp.example", "n1", Now) :
        raw \in {RequestedRaw, OtherRaw}}

\* Entries a JWK key set may hold: the public JWK of a key, the same with
\* another or no "use", with no modulus, or with a modulus that is not base64.
JwkEntries ==
    UNION {{PublicJwk(FromRsa(rsa)),
            [PublicJwk(FromRsa(rsa)) EXCEPT !.use = SomeStr("enc")],
            [PublicJwk(FromRsa(rsa)) EXCEPT !.use = NoStr]} : rsa \in SampleRsa}
    \cup {[PublicJwk(FromRsa(rsa)) EXCEPT !.n = NoText] : rsa \in {[e |-> <<1>>, n |-> <<1>>]}}
    \cup {[PublicJwk(FromRsa(rsa)) EXCEPT !.e = SomeText(BadBase64(<<1>>))] :
            rsa \in {[e |-> <<1>>, n |-> <<1>>]}}

\* What a sender can make of a token it has seen.
Tampered(jws) ==
    {SubSeq(jws, 1, 2), jws \o <<jws[3]>>}
    \cup {[jws EXCEPT ![i] = PaddedBase64(jws[i].bytes)] : i \in 1..3}
    \cup {[jws EXCEPT ![i] = BadBase64(jws[i].bytes)] : i \in 1..3}
    \cup {[jws EXCEPT ![3] = ToBase64(RsaSign(rsa, <<jws[1], jws[2]>>))] : rsa \in SampleRsa}
    \cup {[jws EXCEPT ![2] = ToBase64(JsonText(p))] : p \in SamplePayloads}
    \cup {[jws EXCEPT ![1] = ToBase64(JsonText([kid |-> NoKid, alg |-> "RS256"]))],
          [jws EXCEPT ![1] = ToBase64(JunkBytes)],
          [jws EXCEPT ![3] = ToBase64(JunkBytes)]}

(***************************************************************************)
(* bridges/oidc.rs                                                         *)
(***************************************************************************)
GOOGLE_IDP_ORIGIN == "https://accounts.google.com"
LEEWAY == 30

\* The bounds of the integers the leeway arithmetic is done in.  The code's
\* are those of i64; the model checker's integers are 32 bits wide, and the
\* model keeps the arithmetic at that width.
IntMax == 2147483647
IntMin == (-IntMax) - 1

\* The "insecure" build feature; the default build leaves it off.
Insecure == FALSE

\* A URL: its scheme, its origin and whether validation::parse_oidc_href
\* accepts it.
Href(scheme, origin, valid) == [scheme |-> scheme, origin |-> origin, valid |-> valid]

PortierOrigin == "https://idp.example"

\* The webfinger links auth() may be handed.
Links ==
    {[rel |-> "Portier", href |-> Href("https", PortierOrigin, TRUE)],
     [rel |-> "Portier", href |-> Href("http", "http://idp.example", TRUE)],
     [rel |-> "Portier", href |-> Href("https", "https://idp.example/path", FALSE)],
     [rel |-> "Google", href |-> Href("https", GOOGLE_IDP_ORIGIN, TRUE)],
     [rel |-> "Google", href |-> Href("https", PortierOrigin, TRUE)],
     [rel |-> "Google", href |-> Href("https", "https://accounts.google.com/path", FALSE)]}

\* validation::parse_oidc_href: the origin of an href that passes the
\* issuer rules.
ParseOidcHref(href) == IF href.valid THEN SomeStr(href.origin) ELSE NoStr

\* The values crypto::nonce() may return.
Nonces == {"n1", "n2"}

GoogleClientId == "google-client-id"

\* app.google: absent, or the configured client id.
GoogleConfigs == {NoStr, SomeStr(GoogleClientId)}

NoLink == [rel |-> "None", href |-> Href("", "", FALSE)]
NoOidcData == [link |-> NoLink, origin |-> "", client_id |-> "", nonce |-> ""]

\* BridgeData: what a bridge stores in the session.
NoBridge == [variant |-> "None", oidc |-> NoOidcData]
OidcBridge(bridge_data) == [variant |-> "Oidc", oidc |-> bridge_data]
EmailBridge == [variant |-> "Email", oidc |-> NoOidcData]

AuthErr(e) == [ok |-> FALSE, err |-> e, bridge_data |-> NoOidcData]

\* auth() taking a Google link of any validated origin.
AuthPrepareAnyOrigin(app, link, provider_nonce) ==
    LET provider_origin == ParseOidcHref(link.href)
    IN IF ~provider_origin.some THEN AuthErr("Provider")
       ELSE IF link.rel = "Portier"
       THEN IF ~Insecure /\ link.href.scheme # "https" THEN AuthErr("Provider")
            ELSE [ok |-> TRUE, err |-> "",
                  bridge_data |-> [link |-> link, origin |-> provider_origin.v,
                                   client_id |-> app.public_url, nonce |-> provider_nonce]]
       ELSE IF ~app.google.some THEN AuthErr("ProviderCancelled")
       ELSE [ok |-> TRUE, err |-> "",
             bridge_data |-> [link |-> link, origin |-> provider_origin.v,
                              client_id |-> app.google.v, nonce |-> provider_nonce]]

\* auth(), up to the await of fetch_config: the parameters to use, based on
\* the webfinger link.
AuthPrepare(app, link, provider_nonce) ==
    LET provider_origin == ParseOidcHref(link.href)
    IN IF ~provider_origin.some THEN AuthErr("Provider")
       ELSE IF link.rel = "Portier"
       THEN IF ~Insecure /\ link.href.scheme # "https" THEN AuthErr("Provider")
            ELSE [ok |-> TRUE, err |-> "",
                  bridge_data |-> [link |-> link, origin |-> provider_origin.v,
                                   client_id |-> app.public_url, nonce |-> provider_nonce]]
       ELSE IF ~app.google.some THEN AuthErr("ProviderCancelled")
       ELSE IF provider_origin.v # GOOGLE_IDP_ORIGIN THEN AuthErr("Provider")
       ELSE [ok |-> TRUE, err |-> "",
             bridge_data |-> [link |-> link, origin |-> provider_origin.v,
                              client_id |-> app.google.v, nonce |-> provider_nonce]]

\* default_response_modes_supported
DefaultResponseModesSupported == <<"fragment">>

Endpoint(scheme, path) == [scheme |-> scheme, path |-> path]

\* An OpenID Connect configuration document as fetched.
ConfigDoc(auth_scheme, jwks_scheme, modes) ==
    [authorization_endpoint |-> Endpoint(auth_scheme, "/auth"),
     jwks_uri |-> Endpoint(jwks_scheme, "/keys"),
     response_modes_supported |-> modes]

NoModes == [some |-> FALSE, v |-> <<>>]
SomeModes(modes) == [some |-> TRUE, v |-> modes]

\* What fetch_json_url may answer for the configuration: an error, or a document.
FetchFailed == [ok |-> FALSE, doc |-> ConfigDoc("", "", NoModes)]
ConfigFetches ==
    {FetchFailed}
    \cup {[ok |-> TRUE, doc |-> ConfigDoc("https", "https", modes)] :
            modes \in {NoModes, SomeModes(<<"query", "form_post">>),
                       SomeModes(<<"fragment">>), SomeModes(<<"query">>),
                       SomeModes(<<"fragment", "form_post">>)}}
    \cup {[ok |-> TRUE, doc |-> ConfigDoc("http", "https", NoModes)],
          [ok |-> TRUE, doc |-> ConfigDoc("https", "http", NoModes)]}

\* ProviderConfig as serde deserializes it: the default fills in an absent
\* response_modes_supported.
DeserializeConfig(doc) ==
    [authorization_endpoint |-> doc.authorization_endpoint,
     jwks_uri |-> doc.jwks_uri,
     response_modes_supported |->
        IF doc.response_modes_supported.some THEN doc.response_modes_supported.v
        ELSE DefaultResponseModesSupported]

ConfigErr == [ok |-> FALSE, config |-> DeserializeConfig(ConfigDoc("", "", NoModes))]

\* fetch_config testing the scheme of the authorization_endpoint alone.
FetchConfigAuthEndpointOnly(fetched) ==
    IF ~fetched.ok THEN ConfigErr
    ELSE LET provider_config == DeserializeConfig(fetched.doc)
         IN IF ~Insecure /\ provider_config.authorization_endpoint.scheme # "https"
            THEN ConfigErr
            ELSE [ok |-> TRUE, config |-> provider_config]

\* fetch_config
FetchConfig(fetched) ==
    IF ~fetched.ok THEN ConfigErr
    ELSE LET provider_config == DeserializeConfig(fetched.doc)
         IN IF ~Insecure /\ provider_config.authorization_endpoint.scheme # "https"
            THEN ConfigErr
            ELSE IF ~Insecure /\ provider_config.jwks_uri.scheme # "https" THEN ConfigErr
            ELSE [ok |-> TRUE, config |-> provider_config]

Contains(seq, x) == \E i \in 1..Len(seq) : seq[i] = x

NoUrl ==
    [endpoint |-> Endpoint("", ""), login_hint |-> <<>>, scope |-> "", nonce |-> "",
     state |-> "", response_type |-> "", client_id |-> "", redirect_uri |-> <<"", "">>,
     response_mode |-> NoStr]

\* auth() building the URL with the broker's own URL as client_id.
AuthUrlOwnClientId(app, session_id, email_addr, bridge_data, config) ==
    LET url == [endpoint |-> config.authorization_endpoint,
                login_hint |-> AsStr(email_addr),
                scope |-> "openid email",
                nonce |-> bridge_data.nonce,
                state |-> session_id,
                response_type |-> "id_token",
                client_id |-> app.public_url,
                redirect_uri |-> <<app.public_url, "/callback">>,
                response_mode |-> NoStr]
    IN IF Contains(config.response_modes_supported, "form_post")
       THEN [ok |-> TRUE, url |-> [url EXCEPT !.response_mode = SomeStr("form_post")]]
       ELSE IF ~Contains(config.response_modes_supported, "fragment")
       THEN [ok |-> FALSE, url |-> NoUrl]
       ELSE [ok |-> TRUE, url |-> url]

\* auth() building the URL with fragment preferred to form_post.
AuthUrlFragmentFirst(app, session_id, email_addr, bridge_data, config) ==
    LET url == [endpoint |-> config.authorization_endpoint,
                login_hint |-> AsStr(email_addr),
                scope |-> "openid email",
                nonce |-> bridge_data.nonce,
                state |-> session_id,
                response_type |-> "id_token",
                client_id |-> bridge_data.client_id,
                redirect_uri |-> <<app.public_url, "/callback">>,
                response_mode |-> NoStr]
    IN IF Contains(config.response_modes_supported, "fragment")
       THEN [ok |-> TRUE, url |-> url]
       ELSE IF Contains(config.response_modes_supported, "form_post")
       THEN [ok |-> TRUE, url |-> [url EXCEPT !.response_mode = SomeStr("form_post")]]
       ELSE [ok |-> FALSE, url |-> NoUrl]

\* auth(): the URL to redirect to, or the failure to find a response mode.
AuthUrl(app, session_id, email_addr, bridge_data, config) ==
    LET url == [endpoint |-> config.authorization_endpoint,
                login_hint |-> AsStr(email_addr),
                scope |-> "openid email",
                nonce |-> bridge_data.nonce,
                state |-> session_id,
                response_type |-> "id_token",
                client_id |-> bridge_data.client_id,
                redirect_uri |-> <<app.public_url, "/callback">>,
                response_mode |-> NoStr]
    IN IF Contains(config.response_modes_supported, "form_post")
       THEN [ok |-> TRUE, url |-> [url EXCEPT !.response_mode = SomeStr("form_post")]]
       ELSE IF ~Contains(config.response_modes_supported, "fragment")
       THEN [ok |-> FALSE, url |-> NoUrl]
       ELSE [ok |-> TRUE, url |-> url]

(***************************************************************************)
(* The session store, as the bridge uses it.  An id is Unstarted until a   *)
(* bridge claims it, AwaitingCallback while its BridgeData is stored, and  *)
(* Spent once a callback has loaded it or its time to live has run out.    *)
(***************************************************************************)
\* Context::save_session: claim the id, unless it has been claimed.
SaveSession(store, session_id, bridge) ==
    IF store[session_id].status = "Unstarted"
    THEN [ok |-> TRUE,
          store |-> [store EXCEPT ![session_id] =
                        [status |-> "AwaitingCallback", bridge |-> bridge]]]
    ELSE [ok |-> FALSE, store |-> store]

\* Context::load_session: the stored BridgeData, read once.
LoadSession(store, session_id) ==
    IF session_id \in DOMAIN store /\ store[session_id].status = "AwaitingCallback"
    THEN [ok |-> TRUE, bridge |-> store[session_id].bridge,
          store |-> [store EXCEPT ![session_id].status = "Spent"]]
    ELSE [ok |-> FALSE, bridge |-> NoBridge, store |-> store]

\* What auth() returns once fetch_config has answered, and the store it leaves.
AuthOutcome(result, save, store, url) ==
    [result |-> result, save |-> save, store |-> store, url |-> url]

\* auth() saving the session before it looks for a response mode.
AuthCompleteSaveFirst(app, store, session_id, email_addr, bridge_data, fetched) ==
    LET config == FetchConfig(fetched)
        built == AuthUrl(app, session_id, email_addr, bridge_data, config.config)
        saved == SaveSession(store, session_id, OidcBridge(bridge_data))
    IN IF ~config.ok THEN AuthOutcome("Provider", "none", store, NoUrl)
       ELSE IF ~saved.ok THEN AuthOutcome("ProviderCancelled", "rejected", saved.store, NoUrl)
       ELSE IF ~built.ok THEN AuthOutcome("Provider", "none", saved.store, NoUrl)
       ELSE AuthOutcome("Redirect", "accepted", saved.store, built.url)

\* auth() without the test of what save_session answered.
AuthCompleteIgnoringSave(app, store, session_id, email_addr, bridge_data, fetched) ==
    LET config == FetchConfig(fetched)
        built == AuthUrl(app, session_id, email_addr, bridge_data, config.config)
        saved == SaveSession(store, session_id, OidcBridge(bridge_data))
    IN IF ~config.ok THEN AuthOutcome("Provider", "none", store, NoUrl)
       ELSE IF ~built.ok THEN AuthOutcome("Provider", "none", store, NoUrl)
       ELSE AuthOutcome("Redirect", IF saved.ok THEN "accepted" ELSE "rejected",
                        saved.store, built.url)

\* auth(), from the answer of fetch_config to the end.
AuthComplete(app, store, session_id, email_addr, bridge_data, fetched) ==
    LET config == FetchConfig(fetched)
        built == AuthUrl(app, session_id, email_addr, bridge_data, config.config)
        saved == SaveSession(store, session_id, OidcBridge(bridge_data))
    IN IF ~config.ok THEN AuthOutcome("Provider", "none", store, NoUrl)
       ELSE IF ~built.ok THEN AuthOutcome("Provider", "none", store, NoUrl)
       ELSE IF ~saved.ok THEN AuthOutcome("ProviderCancelled", "rejected", saved.store, NoUrl)
       ELSE AuthOutcome("Redirect", "accepted", saved.store, built.url)

\* The checks of callback() on the token, in the order they are made; each
\* name is the check's target (the claim named in the error, "get_" for a
\* claim that is missing or mistyped).
CheckOrder ==
    <<"token", "get_iss", "get_aud", "get_email", "get_iat", "get_exp", "get_nonce",
      "iss", "aud", "nonce", "exp", "iat", "parse_email", "email", "email_original">>

\* try_get_token_field! over the six claims: the first that is missing or
\* of the wrong type, "ok" when all are there.
GetTokenFields(jwt_payload) ==
    IF jwt_payload.iss.t # "str" THEN "get_iss"
    ELSE IF jwt_payload.aud.t # "str" THEN "get_aud"
    ELSE IF jwt_payload.email.t # "str" THEN "get_email"
    ELSE IF jwt_payload.iat.t # "int" THEN "get_iat"
    ELSE IF jwt_payload.exp.t # "int" THEN "get_exp"
    ELSE IF jwt_payload.nonce.t # "str" THEN "get_nonce"
    ELSE "ok"

\* The checks on iss and aud without the one on nonce.
CheckClaimsNoNonce(jwt_payload, bridge_data) ==
    IF jwt_payload.iss.s # bridge_data.origin THEN "iss"
    ELSE IF jwt_payload.aud.s # bridge_data.client_id THEN "aud"
    ELSE "ok"

\* check_token_field! on iss, aud and nonce: the first that differs from the
\* session's BridgeData.
CheckClaims(jwt_payload, bridge_data) ==
    IF jwt_payload.iss.s # bridge_data.origin THEN "iss"
    ELSE IF jwt_payload.aud.s # bridge_data.client_id THEN "aud"
    ELSE IF jwt_payload.nonce.s # bridge_data.nonce THEN "nonce"
    ELSE "ok"

\* i64::checked_add and checked_sub with a positive right operand.
CheckedAdd(a, b) == IF a > IntMax - b THEN [some |-> FALSE, v |-> 0] ELSE [some |-> TRUE, v |-> a + b]
CheckedSub(a, b) == IF a < IntMin + b THEN [some |-> FALSE, v |-> 0] ELSE [some |-> TRUE, v |-> a - b]

\* The exp check with an addition that stops at the greatest integer.
ExpOkSaturating(exp, now) ==
    LET sum == CheckedAdd(exp, LEEWAY)
    IN now < (IF sum.some THEN sum.v ELSE IntMax)

\* The exp check: now < exp.checked_add(LEEWAY).unwrap_or(i64::min_value())
ExpOk(exp, now) ==
    LET sum == CheckedAdd(exp, LEEWAY)
    IN now < (IF sum.some THEN sum.v ELSE IntMin)

\* The iat check made with a strict comparison.
IatOkStrict(iat, now) ==
    LET diff == CheckedSub(iat, LEEWAY)
    IN (IF diff.some THEN diff.v ELSE IntMax) < now

\* The iat check: iat.checked_sub(LEEWAY).unwrap_or(i64::max_value()) <= now
IatOk(iat, now) ==
    LET diff == CheckedSub(iat, LEEWAY)
    IN (IF diff.some THEN diff.v ELSE IntMax) <= now

\* The Portier arm without the check on email_original.
CheckIdentityNoOriginal(jwt_payload, bridge_data, email_addr) ==
    IF jwt_payload.email.cs # AsStr(email_addr) THEN "email" ELSE "ok"

\* The Portier arm: email is the address as sent, and so is email_original
\* when it is a string.
CheckPortier(jwt_payload, bridge_data, email_addr) ==
    IF jwt_payload.email.cs # AsStr(email_addr) THEN "email"
    ELSE IF jwt_payload.email_original.t = "str"
            /\ jwt_payload.email_original.cs # AsStr(email_addr)
    THEN "email_original"
    ELSE "ok"

\* The Google arm without the comparison of the normalized addresses.
CheckGoogleParseOnly(jwt_payload, bridge_data, email_addr) ==
    IF ~Parse(jwt_payload.email.cs).ok THEN "parse_email" ELSE "ok"

\* The Google arm: email parses, and its Google-normalized form is that of
\* the address of the session.
CheckGoogle(jwt_payload, bridge_data, email_addr) ==
    IF ~Parse(jwt_payload.email.cs).ok THEN "parse_email"
    ELSE IF NormalizeGoogle(Parse(jwt_payload.email.cs).addr) # NormalizeGoogle(email_addr)
    THEN "email"
    ELSE "ok"

\* The match on bridge_data.link.rel: the identity the token asserts against
\* the address of the session.
CheckIdentity(jwt_payload, bridge_data, email_addr) ==
    IF bridge_data.link.rel = "Portier"
    THEN CheckPortier(jwt_payload, bridge_data, email_addr)
    ELSE CheckGoogle(jwt_payload, bridge_data, email_addr)

\* callback(), from verify_jws to the call of complete_auth: the check that
\* fails first, "ok" when the token passes them all.
CheckToken(id_token, keys, bridge_data, email_addr, now) ==
    LET verified == VerifyJws(id_token, [keys |-> [some |-> TRUE, v |-> keys]])
        jwt_payload == verified.val
    IN IF ~verified.ok THEN "token"
       ELSE IF GetTokenFields(jwt_payload) # "ok" THEN GetTokenFields(jwt_payload)
       ELSE IF CheckClaims(jwt_payload, bridge_data) # "ok"
            THEN CheckClaims(jwt_payload, bridge_data)
       ELSE IF ~ExpOk(jwt_payload.exp.i, now) THEN "exp"
       ELSE IF ~IatOk(jwt_payload.iat.i, now) THEN "iat"
       ELSE CheckIdentity(jwt_payload, bridge_data, email_addr)

\* A result of callback(): its class (the BrokerError variant, or "Issued")
\* and the text it carries.
CallbackError(class, message) == [class |-> class, message |-> message]

\* The error for a failed token with a failed signature reported as a
\* failure of the provider.
TokenErrorVerifyAsProvider(check) ==
    CallbackError(IF check = "token" THEN "Provider" ELSE "ProviderInput", check)

\* The error callback() returns for a token that fails the named check:
\* ProviderInput, with a text that names the claim ("token" for the text of
\* a failed verify_jws, which names no cause).
TokenError(check) == CallbackError("ProviderInput", check)

\* What the caller is shown of a result: its class, without the text.
ErrorResponse(class, message) == [error |-> class]

(***************************************************************************)
(* Sample data of the bridge specifications.                               *)
(***************************************************************************)
SessionIds == {"s1"}

\* The address the login attempt was started for (session_data.email_addr).
SessionEmail(session_id) == RequestedEmail

\* The identity provider's signing key, and a key of somebody else.
ProviderKey == FromRsa([e |-> <<1>>, n |-> <<1>>])
StrangerKey == FromRsa([e |-> <<1>>, n |-> <<DotByte, 1>>])

\* What fetch_json_url may answer for the key set.
KeyFetches ==
    {[ok |-> FALSE, keys |-> <<>>],
     [ok |-> TRUE, keys |-> <<PublicJwk(ProviderKey)>>],
     [ok |-> TRUE, keys |-> <<PublicJwk(ProviderKey), PublicJwk(ProviderKey)>>]}

\* The claims of an ID token.
IdClaims(iss, aud, email, iat, exp, nonce, email_original) ==
    [iss |-> iss, aud |-> aud, email |-> email, iat |-> iat, exp |-> exp,
     nonce |-> nonce, email_original |-> email_original]

NoClaims == IdClaims(JNull, JNull, ENull, JNull, JNull, JNull, ENull)

\* The token an honest provider issues for the session.
HonestClaims(bridge_data, email_addr, now) ==
    IdClaims(JStr(bridge_data.origin), JStr(bridge_data.client_id), EStr(AsStr(email_addr)),
             JInt(now), JInt(now + TokenTtl), JStr(bridge_data.nonce), ENull)

\* A token as the callback request carries it, with the claims its sender
\* put in it.
TokenInput(jws, claims) == [jws |-> jws, claims |-> claims]

\* Tokens that no provider key signed, or that are no JWS at all.
BadTokens(claims) ==
    LET jws == SignJws(ProviderKey, claims)
    IN {TokenInput(SignJws(StrangerKey, claims), claims),
        TokenInput([jws EXCEPT ![3] = ToBase64(RsaSign(StrangerKey.key, <<jws[1], jws[2]>>))],
                   claims),
        TokenInput(SubSeq(jws, 1, 2), claims)}

\* The tokens of the protocol specification: the honest one, one for
\* another flow's nonce, and the bad ones.
ProtocolTokens(bridge_data, email_addr, now) ==
    LET honest == HonestClaims(bridge_data, email_addr, now)
    IN {TokenInput(SignJws(ProviderKey, honest), honest)}
       \cup {TokenInput(SignJws(ProviderKey, [honest EXCEPT !.nonce = JStr(nonce)]),
                        [honest EXCEPT !.nonce = JStr(nonce)]) : nonce \in Nonces}
       \cup BadTokens(honest)

\* The e-mail claims of the callback specification: the address as sent, as
\* typed, another spelling of the same Google account, another account, and
\* text that is no address.
EmailClaims ==
    {ENull, EStr(AsStr(RequestedEmail)), EStr(RequestedRaw),
     EStr(<<"a", "b", "@">> \o GMailCom), EStr(OtherRaw), EStr(<<"a", "b">>)}

\* The claims of the callback specification: every combination of a right,
\* a wrong and a missing value per claim, and the times around the leeway.
CallbackClaims(bridge_data, email_addr, now) ==
    {IdClaims(iss, aud, email, iat, exp, nonce, email_original) :
        iss \in {JNull, JStr(bridge_data.origin), JStr("https://evil.example")},
        aud \in {JStr(bridge_data.client_id), JStr("https://rp.example")},
        email \in EmailClaims,
        iat \in {JInt(now), JInt(now + LEEWAY), JInt(now + LEEWAY + 1), JInt(IntMin)},
        exp \in {JNull, JInt(now - LEEWAY - 1), JInt(now - LEEWAY), JInt(now - LEEWAY + 1),
                 JInt(IntMax)},
        nonce \in {JStr(n) : n \in Nonces},
        email_original \in {ENull, EBool, EStr(AsStr(email_addr)), EStr(OtherRaw)}}

CallbackTokens(bridge_data, email_addr, now) ==
    {TokenInput(SignJws(ProviderKey, claims), claims) :
        claims \in CallbackClaims(bridge_data, email_addr, now)}
    \cup BadTokens(HonestClaims(bridge_data, email_addr, now))

VARIABLES
    kid_in,     \* SpecKid: the two RSA keys handed to from_rsa
    kid_out,    \* SpecKid: the NamedKeys from_rsa made of them
    cx,         \* SpecCrypto: one sign_jws / verify_jws exchange
    app_keys,   \* SpecKeys: app.keys, the configured signing keys, oldest first
    minted,     \* SpecKeys: the tokens create_jwt has issued
    app_google, \* app.google, the Google client id if one is configured
    sessions,   \* the session store: id -> status and BridgeData
    flows,      \* the auth() calls in flight, each suspended at fetch_config
    cbs,        \* the callback() calls in flight, each suspended at a fetch
    last,       \* the handler call that returned last: its input and its result
    won,        \* per session id, the BridgeData of every auth() that returned the redirect
    issued,     \* per session id, how often callback() reached complete_auth
    em,         \* SpecEmail: an input, what from_str made of it, and the addresses produced
    wf,         \* SpecWebfinger: one webfinger query()
    nz          \* SpecNormalize: one request to the normalization endpoint

vars == <<kid_in, kid_out, cx, app_keys, minted, app_google, sessions, flows, cbs, last,
          won, issued, em, wf, nz>>

kidVars == <<kid_in, kid_out>>
cxVars == <<cx>>
keysVars == <<app_keys, minted>>
bridgeVars == <<app_google, sessions, flows, cbs, last, won, issued>>
libVars == <<em, wf, nz>>

\* The schemes of the endpoints of a configuration document: those of
\* authorization_endpoint and jwks_uri; NoSchemes when none was received.
NoSchemes == <<"", "">>
SchemesOf(fetched) ==
    IF fetched.ok
    THEN <<fetched.doc.authorization_endpoint.scheme, fetched.doc.jwks_uri.scheme>>
    ELSE NoSchemes

\* The response_modes_supported of a configuration document as received,
\* NoModes when the document has none or none was received.
ModesOf(fetched) == IF fetched.ok THEN fetched.doc.response_modes_supported ELSE NoModes

NoLast ==
    [op |-> "none", sid |-> "", link |-> NoLink, result |-> "", save |-> "none",
     raced |-> FALSE, bridge_data |-> NoOidcData, url |-> NoUrl, failed |-> "",
     claims |-> NoClaims, now |-> 0, fetches |-> 0, config |-> NoSchemes,
     modes |-> NoModes,
     response |-> ErrorResponse("", "")]

KidIdle == kid_in = <<>> /\ kid_out = <<>>
CxIdle == cx = [phase |-> "off"]
KeysIdle == app_keys = <<>> /\ minted = <<>>
BridgeIdle ==
    /\ app_google = NoStr /\ sessions = <<>> /\ flows = <<>> /\ cbs = <<>>
    /\ last = NoLast /\ won = <<>> /\ issued = <<>>
EmIdle == em = [phase |-> "off"]
WfIdle == wf = [phase |-> "off"]
NzIdle == nz = [phase |-> "off"]
LibIdle == EmIdle /\ WfIdle /\ NzIdle

(***************************************************************************)
(* SpecKid: NamedKey::from_rsa applied to two keys.                        *)
(***************************************************************************)
KidInit ==
    /\ kid_in \in RsaKeys \X RsaKeys
    /\ kid_out = <<>>

KidFromRsa ==
    /\ kid_out = <<>>
    /\ kid_out' = <<FromRsa(kid_in[1]), FromRsa(kid_in[2])>>
    /\ UNCHANGED kid_in

InitKid == KidInit /\ CxIdle /\ KeysIdle /\ BridgeIdle /\ LibIdle

NextKid == KidFromRsa /\ UNCHANGED <<cxVars, keysVars, bridgeVars, libVars>>

SpecKid == InitKid /\ [][NextKid]_vars

(***************************************************************************)
(* SpecCrypto: a key set is assembled, a NamedKey signs a payload, the     *)
(* token may be altered on its way, and verify_jws is applied to it.       *)
(***************************************************************************)
CxInit ==
    \E rsa \in SampleRsa, payload \in SamplePayloads :
        cx = [phase |-> "setup", key |-> FromRsa(rsa), payload |-> payload,
              key_set |-> [keys |-> [some |-> TRUE, v |-> <<>>]],
              jws |-> <<>>, pristine |-> TRUE, result |-> VerifyErr]

\* One more entry in the key set document.
CxPublish ==
    /\ cx.phase = "setup"
    /\ cx.key_set.keys.some
    /\ Len(cx.key_set.keys.v) < MaxKeySet
    /\ \E entry \in JwkEntries :
        cx' = [cx EXCEPT !.key_set.keys.v = Append(@, entry)]

\* A key set document without a "keys" array.
CxNoKeys ==
    /\ cx.phase = "setup"
    /\ cx.key_set.keys = [some |-> TRUE, v |-> <<>>]
    /\ cx' = [cx EXCEPT !.key_set.keys.some = FALSE]

CxSign ==
    /\ cx.phase = "setup"
    /\ cx' = [cx EXCEPT !.phase = "signed", !.jws = SignJws(cx.key, cx.payload)]

CxTamper ==
    /\ cx.phase = "signed"
    /\ cx.pristine
    /\ \E jws \in Tampered(cx.jws) :
        cx' = [cx EXCEPT !.jws = jws, !.pristine = FALSE]

CxVerify ==
    /\ cx.phase = "signed"
    /\ cx' = [cx EXCEPT !.phase = "verified", !.result = VerifyJws(cx.jws, cx.key_set)]

InitCrypto == CxInit /\ KidIdle /\ KeysIdle /\ BridgeIdle /\ LibIdle

NextCrypto ==
    \/ CxPublish /\ UNCHANGED <<kidVars, keysVars, bridgeVars, libVars>>
    \/ CxNoKeys /\ UNCHANGED <<kidVars, keysVars, bridgeVars, libVars>>
    \/ CxSign /\ UNCHANGED <<kidVars, keysVars, bridgeVars, libVars>>
    \/ CxTamper /\ UNCHANGED <<kidVars, keysVars, bridgeVars, libVars>>
    \/ CxVerify /\ UNCHANGED <<kidVars, keysVars, bridgeVars, libVars>>

SpecCrypto == InitCrypto /\ [][NextCrypto]_vars

(***************************************************************************)
(* SpecKeys: the configured keys are rotated while create_jwt issues       *)
(* tokens; the published key set is public_jwk() of every configured key.  *)
(***************************************************************************)
KeysApp == [public_url |-> PublicUrl, token_ttl |-> TokenTtl, keys |-> app_keys]

\* The key set document the broker publishes.
PublishedKeySet ==
    [keys |-> [some |-> TRUE, v |-> [i \in 1..Len(app_keys) |-> PublicJwk(app_keys[i])]]]

KeysInit ==
    /\ \E rsa \in SampleRsa : app_keys = <<FromRsa(rsa)>>
    /\ minted = <<>>

\* The operator appends a newer key, one that is not configured yet.
RotateKey ==
    /\ Len(app_keys) < MaxKeys
    /\ \E rsa \in SampleRsa :
        /\ \A i \in 1..Len(app_keys) : app_keys[i].key # rsa
        /\ app_keys' = Append(app_keys, FromRsa(rsa))
    /\ UNCHANGED minted

\* The operator drops the oldest key.
RetireKey ==
    /\ Len(app_keys) > 1
    /\ app_keys' = Tail(app_keys)
    /\ UNCHANGED minted

\* create_jwt is called; newest is the key that was configured last then.
IssueToken ==
    /\ Len(minted) < MaxMinted
    /\ \E raw \in {RequestedRaw, OtherRaw} :
        minted' = Append(minted,
            [jws |-> CreateJwt(KeysApp, Parse(raw).addr, "https://rp.example", "n1", Now),
             payload |-> JwtPayload(KeysApp, Parse(raw).addr, "https://rp.example", "n1", Now),
             newest |-> app_keys[Len(app_keys)]])
    /\ UNCHANGED app_keys

InitKeys == KeysInit /\ KidIdle /\ CxIdle /\ BridgeIdle /\ LibIdle

NextKeys ==
    \/ RotateKey /\ UNCHANGED <<kidVars, cxVars, bridgeVars, libVars>>
    \/ RetireKey /\ UNCHANGED <<kidVars, cxVars, bridgeVars, libVars>>
    \/ IssueToken /\ UNCHANGED <<kidVars, cxVars, bridgeVars, libVars>>

SpecKeys == InitKeys /\ [][NextKeys]_vars

(***************************************************************************)
(* The bridge: auth() and callback() as the steps between their awaits.    *)
(***************************************************************************)
BridgeApp == [public_url |-> PublicUrl, google |-> app_google]

IdleFlow == [pc |-> "idle", sid |-> "", bridge_data |-> NoOidcData, saw_unclaimed |-> FALSE]
IdleCallback == [pc |-> "idle", sid |-> "", bridge_data |-> NoOidcData, config |-> NoSchemes]

\* What is known of a call of auth() that has returned; fetches counts the
\* fetches it awaited, config is the configuration it received.
AuthReturned(sid, link, bridge_data, raced, outcome, fetches, config, modes) ==
    [NoLast EXCEPT !.op = "auth", !.sid = sid, !.link = link, !.result = outcome.result,
                   !.save = outcome.save, !.raced = raced, !.bridge_data = bridge_data,
                   !.url = outcome.url, !.fetches = fetches, !.config = config,
                   !.modes = modes,
                   !.response = ErrorResponse(outcome.result, "")]

\* What is known of a call of callback() that has returned.
CallbackReturned(sid, bridge_data, error, claims, now, fetches, config) ==
    [NoLast EXCEPT !.op = "callback", !.sid = sid, !.result = error.class,
                   !.failed = error.message, !.bridge_data = bridge_data,
                   !.claims = claims, !.now = now, !.fetches = fetches, !.config = config,
                   !.response = ErrorResponse(error.class, error.message)]

\* auth() is called for a session id and a link, and runs until it returns
\* an error or awaits the provider's configuration.
AuthBegin(f) ==
    /\ flows[f].pc = "idle"
    /\ \E sid \in DOMAIN sessions, link \in Links, provider_nonce \in Nonces :
        LET prepared == AuthPrepare(BridgeApp, link, provider_nonce)
        IN IF prepared.ok
           THEN /\ flows' = [flows EXCEPT ![f] =
                        [pc |-> "fetching", sid |-> sid, bridge_data |-> prepared.bridge_data,
                         saw_unclaimed |-> sessions[sid].status = "Unstarted"]]
                /\ UNCHANGED last
           ELSE /\ last' = AuthReturned(sid, link, NoOidcData, FALSE,
                                AuthOutcome(prepared.err, "none", sessions, NoUrl),
                                0, NoSchemes, NoModes)
                /\ UNCHANGED flows
    /\ UNCHANGED <<app_google, sessions, cbs, won, issued>>

\* fetch_config answers and auth() runs to its end.
AuthResume(f) ==
    /\ flows[f].pc = "fetching"
    /\ \E fetched \in ConfigFetches :
        LET sid == flows[f].sid
            outcome == AuthComplete(BridgeApp, sessions, sid, SessionEmail(sid),
                                    flows[f].bridge_data, fetched)
        IN /\ sessions' = outcome.store
           /\ last' = AuthReturned(sid, flows[f].bridge_data.link, flows[f].bridge_data,
                                   flows[f].saw_unclaimed, outcome, 1, SchemesOf(fetched),
                                   ModesOf(fetched))
           /\ won' = IF outcome.result = "Redirect"
                     THEN [won EXCEPT ![sid] = Append(@, flows[f].bridge_data)]
                     ELSE won
    /\ flows' = [flows EXCEPT ![f] = IdleFlow]
    /\ UNCHANGED <<app_google, cbs, issued>>

\* Another bridge (the e-mail loop) claims a session id.
EmailBridgeSave ==
    /\ \E sid \in DOMAIN sessions :
        sessions' = SaveSession(sessions, sid, EmailBridge).store
    /\ UNCHANGED <<app_google, flows, cbs, last, won, issued>>

\* An abandoned session runs out of its time to live.
SessionExpire ==
    /\ \E sid \in DOMAIN sessions :
        /\ sessions[sid].status = "AwaitingCallback"
        /\ sessions' = [sessions EXCEPT ![sid].status = "Spent"]
    /\ UNCHANGED <<app_google, flows, cbs, last, won, issued>>

\* The request parameters callback() reads: state, and whether an id_token
\* came with it.
StateParams == {NoStr} \cup {SomeStr(sid) : sid \in SessionIds \cup {"unknown"}}

\* callback() going on after load_session has failed.
CallbackLoadAndContinue(store, state, has_id_token) ==
    LET loaded == LoadSession(store, state.v)
    IN IF ~state.some THEN [result |-> "ProviderInput", failed |-> "state", store |-> store,
                            bridge_data |-> NoOidcData]
       ELSE IF loaded.bridge.variant # "Oidc" /\ loaded.ok
       THEN [result |-> "ProviderInput", failed |-> "session", store |-> loaded.store,
             bridge_data |-> NoOidcData]
       ELSE IF ~has_id_token
       THEN [result |-> "ProviderInput", failed |-> "id_token", store |-> loaded.store,
             bridge_data |-> loaded.bridge.oidc]
       ELSE [result |-> "await", failed |-> "", store |-> loaded.store,
             bridge_data |-> loaded.bridge.oidc]

\* callback() taking the session of any bridge for its own.
CallbackLoadAnyVariant(store, state, has_id_token) ==
    LET loaded == LoadSession(store, state.v)
    IN IF ~state.some THEN [result |-> "ProviderInput", failed |-> "state", store |-> store,
                            bridge_data |-> NoOidcData]
       ELSE IF ~loaded.ok THEN [result |-> "SessionError", failed |-> "load", store |-> loaded.store,
                                bridge_data |-> NoOidcData]
       ELSE IF ~has_id_token
       THEN [result |-> "ProviderInput", failed |-> "id_token", store |-> loaded.store,
             bridge_data |-> loaded.bridge.oidc]
       ELSE [result |-> "await", failed |-> "", store |-> loaded.store,
             bridge_data |-> loaded.bridge.oidc]

\* What callback() does before its first await.
CallbackLoad(store, state, has_id_token) ==
    LET loaded == LoadSession(store, state.v)
    IN IF ~state.some THEN [result |-> "ProviderInput", failed |-> "state", store |-> store,
                            bridge_data |-> NoOidcData]
       ELSE IF ~loaded.ok THEN [result |-> "SessionError", failed |-> "load", store |-> loaded.store,
                                bridge_data |-> NoOidcData]
       ELSE IF loaded.bridge.variant # "Oidc"
       THEN [result |-> "ProviderInput", failed |-> "session", store |-> loaded.store,
             bridge_data |-> NoOidcData]
       ELSE IF ~has_id_token
       THEN [result |-> "ProviderInput", failed |-> "id_token", store |-> loaded.store,
             bridge_data |-> loaded.bridge.oidc]
       ELSE [result |-> "await", failed |-> "", store |-> loaded.store,
             bridge_data |-> loaded.bridge.oidc]

\* callback() is called and runs until it returns an error or awaits the
\* provider's configuration.
CallbackBegin(c) ==
    /\ cbs[c].pc = "idle"
    /\ \E state \in StateParams, has_id_token \in BOOLEAN :
        LET begun == CallbackLoad(sessions, state, has_id_token)
        IN /\ sessions' = begun.store
           /\ IF begun.result = "await"
              THEN /\ cbs' = [cbs EXCEPT ![c] = [pc |-> "config", sid |-> state.v,
                                                 bridge_data |-> begun.bridge_data,
                                                 config |-> NoSchemes]]
                   /\ UNCHANGED last
              ELSE /\ last' = CallbackReturned(state.v, begun.bridge_data,
                                               CallbackError(begun.result, begun.failed),
                                               NoClaims, 0, 0, NoSchemes)
                   /\ UNCHANGED cbs
    /\ UNCHANGED <<app_google, flows, won, issued>>

\* fetch_config answers: callback() returns its error or awaits the key set.
CallbackConfig(c) ==
    /\ cbs[c].pc = "config"
    /\ \E fetched \in ConfigFetches :
        IF FetchConfig(fetched).ok
        THEN /\ cbs' = [cbs EXCEPT ![c].pc = "keys", ![c].config = SchemesOf(fetched)]
             /\ UNCHANGED last
        ELSE /\ cbs' = [cbs EXCEPT ![c] = IdleCallback]
             /\ last' = CallbackReturned(cbs[c].sid, cbs[c].bridge_data,
                                         CallbackError("Provider", "config"),
                                         NoClaims, 0, 1, SchemesOf(fetched))
    /\ UNCHANGED <<app_google, sessions, flows, won, issued>>

\* The key set answers and callback() runs to its end: it verifies the token
\* and its claims and, if all is well, calls complete_auth.
CallbackFinish(c, tokens) ==
    /\ cbs[c].pc = "keys"
    /\ \E fetched \in KeyFetches, token \in tokens :
        LET sid == cbs[c].sid
            bridge_data == cbs[c].bridge_data
            check == CheckToken(token.jws, fetched.keys, bridge_data, SessionEmail(sid), Now)
        IN IF ~fetched.ok
           THEN /\ last' = CallbackReturned(sid, bridge_data, CallbackError("Provider", "keys"),
                                            NoClaims, 0, 2, cbs[c].config)
                /\ UNCHANGED issued
           ELSE IF check # "ok"
           THEN /\ last' = CallbackReturned(sid, bridge_data, TokenError(check),
                                            token.claims, Now, 2, cbs[c].config)
                /\ UNCHANGED issued
           ELSE /\ last' = CallbackReturned(sid, bridge_data, CallbackError("Issued", ""),
                                            token.claims, Now, 2, cbs[c].config)
                /\ issued' = [issued EXCEPT ![sid] = @ + 1]
    /\ cbs' = [cbs EXCEPT ![c] = IdleCallback]
    /\ UNCHANGED <<app_google, sessions, flows, won>>

(***************************************************************************)
(* Spec: the flows of the bridge running concurrently over the store.      *)
(***************************************************************************)
Init ==
    /\ app_google \in GoogleConfigs
    /\ sessions = [sid \in SessionIds |-> [status |-> "Unstarted", bridge |-> NoBridge]]
    /\ flows = [f \in 1..MaxFlows |-> IdleFlow]
    /\ cbs = [c \in 1..MaxCallbacks |-> IdleCallback]
    /\ last = NoLast
    /\ won = [sid \in SessionIds |-> <<>>]
    /\ issued = [sid \in SessionIds |-> 0]
    /\ KidIdle /\ CxIdle /\ KeysIdle /\ LibIdle

Next ==
    \/ \E f \in 1..MaxFlows : AuthBegin(f) /\ UNCHANGED <<kidVars, cxVars, keysVars, libVars>>
    \/ \E f \in 1..MaxFlows : AuthResume(f) /\ UNCHANGED <<kidVars, cxVars, keysVars, libVars>>
    \/ EmailBridgeSave /\ UNCHANGED <<kidVars, cxVars, keysVars, libVars>>
    \/ SessionExpire /\ UNCHANGED <<kidVars, cxVars, keysVars, libVars>>
    \/ \E c \in 1..MaxCallbacks : CallbackBegin(c) /\ UNCHANGED <<kidVars, cxVars, keysVars, libVars>>
    \/ \E c \in 1..MaxCallbacks : CallbackConfig(c) /\ UNCHANGED <<kidVars, cxVars, keysVars, libVars>>
    \/ \E c \in 1..MaxCallbacks :
        /\ CallbackFinish(c, ProtocolTokens(cbs[c].bridge_data, SessionEmail(cbs[c].sid), Now))
        /\ UNCHANGED <<kidVars, cxVars, keysVars, libVars>>

Spec == Init /\ [][Next]_vars

(***************************************************************************)
(* SpecCallback: one callback() for a session that an auth() has stored,   *)
(* over every combination of claims.                                       *)
(***************************************************************************)
InitCallback ==
    /\ app_google \in GoogleConfigs
    /\ \E link \in Links, provider_nonce \in Nonces :
        LET prepared == AuthPrepare(BridgeApp, link, provider_nonce)
        IN /\ prepared.ok
           /\ sessions = [sid \in {"s1"} |->
                            [status |-> "AwaitingCallback",
                             bridge |-> OidcBridge(prepared.bridge_data)]]
           /\ won = [sid \in {"s1"} |-> <<prepared.bridge_data>>]
    /\ flows = <<>>
    /\ cbs = [c \in {1} |-> IdleCallback]
    /\ last = NoLast
    /\ issued = [sid \in {"s1"} |-> 0]
    /\ KidIdle /\ CxIdle /\ KeysIdle /\ LibIdle

NextCallback ==
    \/ CallbackBegin(1) /\ UNCHANGED <<kidVars, cxVars, keysVars, libVars>>
    \/ CallbackConfig(1) /\ UNCHANGED <<kidVars, cxVars, keysVars, libVars>>
    \/ /\ CallbackFinish(1, CallbackTokens(cbs[1].bridge_data, SessionEmail(cbs[1].sid), Now))
       /\ UNCHANGED <<kidVars, cxVars, keysVars, libVars>>

SpecCallback == InitCallback /\ [][NextCallback]_vars

(***************************************************************************)
(* SpecEmail: from_str is applied to an input and then to the              *)
(* serialization of its result, and normalize_google to every address      *)
(* produced.                                                               *)
(***************************************************************************)
\* Longest text in front of the tail of an input.
MaxLocal == 3
\* Most addresses one run of SpecEmail produces from one input.
MaxAddrs == 3

\* The characters an input starts with, and the tails it may end in.
LocalChars == {"A", "b", ".", "+", "@"}
EmailHeads == UNION {[1..n -> LocalChars] : n \in 0..MaxLocal}
EmailTails ==
    {<<>>, <<"@">>,
     <<"@", "G", "o", "o", "g", "l", "e", "M", "a", "i", "l", ".", "c", "o", "m">>,
     <<"@">> \o GMailCom,
     <<"@", "X", ".", "c", "o">>,
     <<"@", "a", "#", "b">>,
     <<"@", "b", " ", "c">>,
     <<"@", "1", ".", "1", ".", "1", ".", "1">>,
     <<"@", "1", ".", "1", ".", "1">>}
EmailInputs == {head \o tail : head \in EmailHeads, tail \in EmailTails}

EmInit ==
    \E input \in EmailInputs :
        em = [phase |-> "input", input |-> input, parsed |-> ParseErr(""),
              again |-> ParseErr(""), addrs |-> <<>>]

\* input.parse::<EmailAddress>()
EmParse ==
    /\ em.phase = "input"
    /\ em' = [em EXCEPT !.phase = "parsed", !.parsed = Parse(em.input),
                        !.addrs = IF Parse(em.input).ok THEN <<Parse(em.input).addr>> ELSE <<>>]

\* The serialization of the address is parsed in turn.
EmReparse ==
    /\ em.phase = "parsed"
    /\ em.parsed.ok
    /\ em' = [em EXCEPT !.phase = "reparsed", !.again = Parse(AsStr(em.parsed.addr))]

\* normalize_google is applied to the address produced last.
EmNormalizeGoogle ==
    /\ em.phase \in {"parsed", "reparsed"}
    /\ em.addrs # <<>>
    /\ Len(em.addrs) < MaxAddrs
    /\ em' = [em EXCEPT !.addrs = Append(@, NormalizeGoogle(em.addrs[Len(em.addrs)]))]

InitEmail == EmInit /\ WfIdle /\ NzIdle /\ KidIdle /\ CxIdle /\ KeysIdle /\ BridgeIdle

NextEmail ==
    \/ EmParse /\ UNCHANGED <<wf, nz, kidVars, cxVars, keysVars, bridgeVars>>
    \/ EmReparse /\ UNCHANGED <<wf, nz, kidVars, cxVars, keysVars, bridgeVars>>
    \/ EmNormalizeGoogle /\ UNCHANGED <<wf, nz, kidVars, cxVars, keysVars, bridgeVars>>

SpecEmail == InitEmail /\ [][NextEmail]_vars

(***************************************************************************)
(* webfinger.rs                                                            *)
(*                                                                         *)
(* The text of a URL is modelled by its scheme, its host (a character      *)
(* sequence) and its path.  A Url holds its serialization: Url::parse      *)
(* lowercases the host and gives a URL without a path the path "/".        *)
(***************************************************************************)
\* Most links in a webfinger descriptor or a static override.
MaxLinks == 2

WEBFINGER_PORTIER_REL == "https://portier.io/specs/auth/1.0/idp"
WEBFINGER_GOOGLE_REL == "https://portier.io/specs/auth/1.0/idp/google"

UrlText(scheme, host, path) == [valid |-> TRUE, scheme |-> scheme, host |-> host, path |-> path]
\* Text that is no URL; the empty string serde fills in for an absent href.
NotUrlText == [valid |-> FALSE, scheme |-> "", host |-> <<>>, path |-> ""]

\* str::parse::<Url>
UrlParse(text) ==
    IF ~text.valid THEN [ok |-> FALSE, url |-> [serialization |-> NotUrlText]]
    ELSE [ok |-> TRUE,
          url |-> [serialization |->
                    UrlText(text.scheme, ToLowercase(text.host),
                            IF text.path = "" THEN "/" ELSE text.path)]]

\* Url::as_str
UrlAsStr(url) == url.serialization

\* <Relation as FromStr>::from_str
RelationFromStr(rel) ==
    IF rel = WEBFINGER_PORTIER_REL THEN [ok |-> TRUE, rel |-> "Portier"]
    ELSE IF rel = WEBFINGER_GOOGLE_REL THEN [ok |-> TRUE, rel |-> "Google"]
    ELSE [ok |-> FALSE, rel |-> "None"]

LinkDef(rel, href) == [rel |-> rel, href |-> href]
WfLink(rel, href) == [rel |-> rel, href |-> href]

\* Link::from_de_link
FromDeLink(link) ==
    LET rel == RelationFromStr(link.rel)
        href == UrlParse(link.href)
    IN IF rel.ok /\ href.ok THEN [ok |-> TRUE, link |-> WfLink(rel.rel, href.url)]
       ELSE [ok |-> FALSE, link |-> WfLink("None", [serialization |-> NotUrlText])]

QueryErr(e) == [ok |-> FALSE, err |-> e, links |-> <<>>]
QueryOk(links) == [ok |-> TRUE, err |-> "", links |-> links]

\* app.domain_overrides: no entry, or the links configured for one domain.
NoOverrides == [some |-> FALSE, domain |-> <<>>, links |-> <<>>]
OverrideFor(domain, links) == [some |-> TRUE, domain |-> domain, links |-> links]

\* query(), up to the await of fetch_json_url: the configuration override
\* for the domain, if there is one.
QueryOverride(app, email_addr) ==
    IF app.domain_overrides.some /\ app.domain_overrides.domain = Domain(email_addr)
    THEN [found |-> TRUE, result |-> QueryOk(app.domain_overrides.links)]
    ELSE [found |-> FALSE, result |-> QueryErr("")]

\* query() with a failed request answered by an empty list.
QueryFetchedLenient(app, fetched) ==
    LET Parses(link) == FromDeLink(link).ok
        parsed == [i \in 1..Len(SelectSeq(fetched.links, Parses)) |->
                        FromDeLink(SelectSeq(fetched.links, Parses)[i]).link]
        NotSelf(link) == UrlAsStr(link.href) # app.public_url
    IN QueryOk(SelectSeq(parsed, NotSelf))

\* query(), from the answer of fetch_json_url to the end.
QueryFetched(app, fetched) ==
    LET Parses(link) == FromDeLink(link).ok
        parsed == [i \in 1..Len(SelectSeq(fetched.links, Parses)) |->
                        FromDeLink(SelectSeq(fetched.links, Parses)[i]).link]
        NotSelf(link) == UrlAsStr(link.href) # app.public_url
    IN IF ~fetched.ok THEN QueryErr(fetched.err)
       ELSE QueryOk(SelectSeq(parsed, NotSelf))

(***************************************************************************)
(* SpecWebfinger: one query() for an address, under a configuration, with  *)
(* every answer the fetch may give.                                        *)
(***************************************************************************)
BrokerHost == <<"b">>
\* app.public_url as the operator may write it.
PublicUrlTexts == {UrlText("https", BrokerHost, ""), UrlText("https", BrokerHost, "/")}

\* The href texts of a descriptor: the broker itself in three spellings,
\* another host, and text that is no URL.
HrefTexts ==
    PublicUrlTexts \cup
    {UrlText("https", <<"B">>, ""), UrlText("https", <<"i">>, "/x"), NotUrlText}

LinkDefs ==
    {LinkDef(rel, href) :
        rel \in {WEBFINGER_PORTIER_REL, WEBFINGER_GOOGLE_REL, ""}, href \in HrefTexts}

\* What fetch_json_url may answer: an error (the request failed, or its body
\* is no descriptor), or a descriptor; serde fills in an absent "links".
WfFetchErrors ==
    {[ok |-> FALSE, err |-> e, links |-> <<>>] : e \in {"Provider", "Internal"}}
WfFetches ==
    WfFetchErrors \cup
    {[ok |-> TRUE, err |-> "", links |-> links] :
        links \in UNION {[1..n -> LinkDefs] : n \in 0..MaxLinks}}

\* The links of a static override.
OverrideLinks ==
    {WfLink("Portier", UrlParse(UrlText("https", BrokerHost, "")).url),
     WfLink("Portier", UrlParse(UrlText("https", <<"i">>, "/x")).url),
     WfLink("Google", UrlParse(UrlText("https", <<"i">>, "/x")).url)}

WfConfigs ==
    {[public_url |-> public_url, domain_overrides |-> overrides] :
        public_url \in PublicUrlTexts,
        overrides \in {NoOverrides} \cup
            {OverrideFor(GMailCom, links) :
                links \in UNION {[1..n -> OverrideLinks] : n \in 0..MaxLinks}}}

WfInit ==
    \E app \in WfConfigs, raw \in {RequestedRaw, OtherRaw} :
        wf = [phase |-> "called", app |-> app, email_addr |-> Parse(raw).addr,
              fetched |-> FALSE, failed |-> FALSE, result |-> QueryErr("")]

\* query() is called: it returns the override or awaits the request.
WfQueryBegin ==
    /\ wf.phase = "called"
    /\ LET mapped == QueryOverride(wf.app, wf.email_addr)
       IN IF mapped.found
          THEN wf' = [wf EXCEPT !.phase = "returned", !.result = mapped.result]
          ELSE wf' = [wf EXCEPT !.phase = "fetching"]

\* The request answers and query() runs to its end.
WfQueryResume ==
    /\ wf.phase = "fetching"
    /\ \E fetched \in WfFetches :
        wf' = [wf EXCEPT !.phase = "returned", !.fetched = TRUE, !.failed = ~fetched.ok,
                         !.result = QueryFetched(wf.app, fetched)]

InitWebfinger == WfInit /\ EmIdle /\ NzIdle /\ KidIdle /\ CxIdle /\ KeysIdle /\ BridgeIdle

NextWebfinger ==
    \/ WfQueryBegin /\ UNCHANGED <<em, nz, kidVars, cxVars, keysVars, bridgeVars>>
    \/ WfQueryResume /\ UNCHANGED <<em, nz, kidVars, cxVars, keysVars, bridgeVars>>

SpecWebfinger == InitWebfinger /\ [][NextWebfinger]_vars

(***************************************************************************)
(* handlers/normalize.rs: the email normalization endpoint.                *)
(***************************************************************************)
\* A byte of the body that is part of no UTF-8 sequence, and the character
\* U+FFFD that from_utf8_lossy puts in its place.
InvalidByte == "0xFF"
ReplacementChar == "U+FFFD"

\* String::from_utf8_lossy: every other byte of the model's bodies is ASCII
\* and stands for itself.
FromUtf8Lossy(body) ==
    [i \in 1..Len(body) |-> IF body[i] = InvalidByte THEN ReplacementChar ELSE body[i]]

\* str::split_inclusive('\n'): the pieces of s, each with the newline that
\* ends it; the last has none when s does not end in one.
RECURSIVE SplitInclusive(_)
SplitInclusive(s) ==
    LET p == Find(s, "\n")
    IN IF s = <<>> THEN <<>>
       ELSE IF p = 0 THEN <<s>>
       ELSE <<SubSeq(s, 1, p)>> \o SplitInclusive(SubSeq(s, p + 1, Len(s)))

\* The closure of str::lines: a piece without its "\n", and without the
\* "\r" in front of that; a piece that ends in no "\n" is left as it is.
StripLineEnding(line) ==
    IF line = <<>> \/ line[Len(line)] # "\n" THEN line
    ELSE LET rest == SubSeq(line, 1, Len(line) - 1)
         IN IF rest # <<>> /\ rest[Len(rest)] = "\r"
            THEN SubSeq(rest, 1, Len(rest) - 1)
            ELSE rest

\* str::lines
Lines(s) ==
    LET pieces == SplitInclusive(s)
    IN [i \in 1..Len(pieces) |-> StripLineEnding(pieces[i])]

\* The closure of normalize(): the serialization of the address a line
\* parses to, the empty string for a line that does not parse.
NormalizeLine(line) ==
    IF Parse(line).ok THEN AsStr(Parse(line).addr) ELSE <<>>

\* [String]::join(sep)
RECURSIVE Join(_, _)
Join(strings, sep) ==
    IF strings = <<>> THEN <<>>
    ELSE IF Len(strings) = 1 THEN strings[1]
    ELSE strings[1] \o sep \o Join(Tail(strings), sep)

\* The body of the response with a newline after every line.
NormalizeTerminated(body) ==
    LET lines == Lines(FromUtf8Lossy(body))
    IN Join([i \in 1..Len(lines) |-> NormalizeLine(lines[i]) \o <<"\n">>], <<>>)

\* normalize(): the body of the response for a request body.
Normalize(body) ==
    LET lines == Lines(FromUtf8Lossy(body))
    IN Join([i \in 1..Len(lines) |-> NormalizeLine(lines[i])], <<"\n">>)

(***************************************************************************)
(* SpecNormalize: a body of up to MaxLines lines is posted to the          *)
(* endpoint, which answers it.                                             *)
(***************************************************************************)
\* Most lines in a body.
MaxLines == 3

\* The lines a body is made of: empty, without separator, an address that
\* normalization changes, an address from bytes that are not UTF-8, and an
\* address with an invalid domain.
BodyLines ==
    {<<>>, <<"b">>, <<"A", "@", "X", ".", "c", "o">>,
     <<InvalidByte, "@", "b">>, <<"b", "@", "a", "#", "b">>}
\* What ends a line; the last line of a body may end in nothing.
LineEndings == {<<"\n">>, <<"\r", "\n">>}

\* The bodies of n lines, all but the last ended.
RECURSIVE EndedLines(_)
EndedLines(n) ==
    IF n = 0 THEN {<<>>}
    ELSE {front \o line \o ending :
            front \in EndedLines(n - 1), line \in BodyLines, ending \in LineEndings}

Bodies ==
    UNION {EndedLines(n) : n \in 0..MaxLines}
    \cup UNION {{front \o line : front \in EndedLines(n - 1), line \in BodyLines \ {<<>>}} :
                 n \in 1..MaxLines}

NzInit == \E body \in Bodies : nz = [phase |-> "received", body |-> body, result |-> <<>>]

\* normalize(ctx)
NzNormalize ==
    /\ nz.phase = "received"
    /\ nz' = [nz EXCEPT !.phase = "responded", !.result = Normalize(nz.body)]

InitNormalize == NzInit /\ EmIdle /\ WfIdle /\ KidIdle /\ CxIdle /\ KeysIdle /\ BridgeIdle

NextNormalize == NzNormalize /\ UNCHANGED <<em, wf, kidVars, cxVars, keysVars, bridgeVars>>

SpecNormalize == InitNormalize /\ [][NextNormalize]_vars

(***************************************************************************)
(* Properties of crypto.rs.                                                *)
(***************************************************************************)
\* The key set entries of the exchange ("keys" absent: none).
CxEntries == IF cx.key_set.keys.some THEN cx.key_set.keys.v ELSE <<>>

\* How many entries carry the given kid, whatever their use.
CxKidCount(kid) ==
    Cardinality({i \in 1..Len(CxEntries) : CxEntries[i].kid = SomeKid(kid)})

\* How many entries carry the given kid and use "sig".
CxSigCount(kid) ==
    Cardinality({i \in 1..Len(CxEntries) :
        CxEntries[i].kid = SomeKid(kid) /\ CxEntries[i].use = SomeStr("sig")})

\* The key set holds the signer's public_jwk().
CxHoldsOwnJwk == \E i \in 1..Len(CxEntries) : CxEntries[i] = PublicJwk(cx.key)

\* The token has a header that decodes and names a kid.
CxHeaderNamesKid ==
    /\ Len(cx.jws) >= 1
    /\ FromBase64(cx.jws[1]).ok
    /\ cx.jws[1].bytes.kind = "json"
    /\ cx.jws[1].bytes.val.kid.some

CxHeaderKid == cx.jws[1].bytes.val.kid.v

\* The token's third segment is a signature by rsa over its first two.
CxSignedBy(rsa) ==
    /\ cx.jws[3].form # "bad"
    /\ cx.jws[3].bytes.kind = "sig"
    /\ cx.jws[3].bytes.val = [by |-> rsa, over |-> <<cx.jws[1], cx.jws[2]>>]

\* C7 as stated: verify_jws applied to k.sign_jws(p) and a key set that
\* contains k.public_jwk() succeeds with the payload p.
C7_SignVerifyAnyKeySet ==
    (cx.phase = "verified" /\ cx.pristine /\ CxHoldsOwnJwk)
        => cx.result = [ok |-> TRUE, val |-> cx.payload]

\* C7 as amended: verify_jws applied to k.sign_jws(p) and a key set that
\* contains k.public_jwk() and no second entry with the same kid and use
\* "sig" succeeds with a payload equal to p.
C7_SignVerifyRoundTrip ==
    (cx.phase = "verified" /\ cx.pristine /\ CxHoldsOwnJwk /\ CxSigCount(cx.key.id) = 1)
        => cx.result = [ok |-> TRUE, val |-> cx.payload]

\* An untouched token was verified against a key set of two entries, the
\* signer's own JWK among them, and came back with its payload.
C7_Witness ==
    /\ cx.phase = "verified" /\ cx.pristine /\ CxHoldsOwnJwk
    /\ Len(CxEntries) = 2 /\ CxSigCount(cx.key.id) = 1
    /\ cx.result.ok

\* C8 as stated: verify_jws fails for a token that is not 3 segments, whose
\* header kid matches no or more than one key-set entry, or whose signature
\* does not verify under the selected key.
C8_RejectsByKidAlone ==
    cx.phase = "verified" =>
        /\ Len(cx.jws) # 3 => ~cx.result.ok
        /\ (CxHeaderNamesKid /\ CxKidCount(CxHeaderKid) # 1) => ~cx.result.ok
        /\ (Len(cx.jws) = 3 /\ CxHeaderNamesKid
              /\ \A i \in 1..Len(CxEntries) :
                    (CxEntries[i].kid = SomeKid(CxHeaderKid) /\ CxEntries[i].n.some
                        /\ CxEntries[i].e.some)
                    => ~CxSignedBy([e |-> CxEntries[i].e.v.bytes, n |-> CxEntries[i].n.v.bytes]))
            => ~cx.result.ok

\* C8 as amended: verify_jws fails for a token that is not 3 segments, whose
\* header kid matches no or more than one key-set entry of use "sig", or
\* whose signature does not verify over the first two segments under the
\* selected key.
C8_Rejects ==
    cx.phase = "verified" =>
        /\ Len(cx.jws) # 3 => ~cx.result.ok
        /\ (CxHeaderNamesKid /\ CxSigCount(CxHeaderKid) # 1) => ~cx.result.ok
        /\ (Len(cx.jws) = 3 /\ CxHeaderNamesKid
              /\ \A i \in 1..Len(CxEntries) :
                    (CxEntries[i].kid = SomeKid(CxHeaderKid) /\ CxEntries[i].n.some
                        /\ CxEntries[i].e.some)
                    => ~CxSignedBy([e |-> CxEntries[i].e.v.bytes, n |-> CxEntries[i].n.v.bytes]))
            => ~cx.result.ok

\* A well signed token was refused because two entries of use "sig" carry
\* its kid.
C8_Witness ==
    /\ cx.phase = "verified" /\ cx.pristine
    /\ CxSigCount(cx.key.id) = 2
    /\ ~cx.result.ok

\* C9: the kid from_rsa computes is the same for two keys with the same
\* (e, n) and differs for two keys that differ in e or in n.
C9_KidInjective ==
    kid_out # <<>> =>
        /\ kid_in[1] = kid_in[2] => kid_out[1].id = kid_out[2].id
        /\ kid_in[1] # kid_in[2] => kid_out[1].id # kid_out[2].id

\* C10: create_jwt signs with the key configured last, and a token issued by
\* a key that is still configured verifies against the published key set.
C10_RotationKeepsTokensValid ==
    \A m \in 1..Len(minted) :
        /\ minted[m].jws[3].bytes.val.by = minted[m].newest.key
        /\ minted[m].jws[1].bytes.val.kid = SomeKid(minted[m].newest.id)
        /\ (\E i \in 1..Len(app_keys) : app_keys[i] = minted[m].newest)
            => VerifyJws(minted[m].jws, PublishedKeySet) = [ok |-> TRUE, val |-> minted[m].payload]

(***************************************************************************)
(* Properties of bridges/oidc.rs.                                          *)
(***************************************************************************)
\* The callbacks in flight that loaded the session of the given id.
Holding(sid) == {c \in DOMAIN cbs : cbs[c].pc # "idle" /\ cbs[c].sid = sid}

\* The position of a check in the order callback() makes them.
CheckIndex(name) == CHOOSE i \in 1..Len(CheckOrder) : CheckOrder[i] = name

\* The callback that returned last got as far as the named check.
LastReached(name) ==
    /\ last.op = "callback"
    /\ \/ last.result = "Issued"
       \/ /\ last.result = "ProviderInput"
          /\ Contains(CheckOrder, last.failed)
          /\ CheckIndex(last.failed) >= CheckIndex(name)

LastIssued == last.op = "callback" /\ last.result = "Issued"

C3_ClaimsBound ==
    LastIssued =>
        /\ last.claims.iss = JStr(last.bridge_data.origin)
        /\ last.claims.aud = JStr(last.bridge_data.client_id)
        /\ last.claims.nonce = JStr(last.bridge_data.nonce)

C3_Witness ==
    /\ LastIssued
    /\ last.claims.nonce = JStr(last.bridge_data.nonce)
    /\ last.bridge_data.link.rel = "Google"

\* C4: a token with now = exp + 30 passes the exp check, and a token with
\* now = exp + 31 is rejected by it.
C4_ExpBoundary ==
    (LastReached("exp") /\ last.claims.exp.t = "int") =>
        /\ last.now - LEEWAY = last.claims.exp.i => last.failed # "exp"
        /\ last.now - LEEWAY - 1 = last.claims.exp.i => last.failed = "exp"

\* C5: for a Portier session, callback reaches complete_auth only with a
\* token whose email is the address sent and whose email_original, when it
\* is a string, is that address too.
C5_PortierIdentity ==
    (LastIssued /\ last.bridge_data.link.rel = "Portier") =>
        /\ last.claims.email = EStr(AsStr(SessionEmail(last.sid)))
        /\ last.claims.email_original.t = "str"
            => last.claims.email_original.cs = AsStr(SessionEmail(last.sid))

C5_Witness ==
    /\ LastIssued /\ last.bridge_data.link.rel = "Portier"
    /\ last.claims.email_original.t = "str"

\* C6: for a Google session, callback reaches complete_auth only with a token
\* whose email parses and has the Google-normalized form of the address sent.
C6_GoogleIdentity ==
    (LastIssued /\ last.bridge_data.link.rel = "Google") =>
        /\ Parse(last.claims.email.cs).ok
        /\ NormalizeGoogle(Parse(last.claims.email.cs).addr)
            = NormalizeGoogle(SessionEmail(last.sid))

\* A Google session completed with a token that spells the address otherwise.
C6_Witness ==
    /\ LastIssued /\ last.bridge_data.link.rel = "Google"
    /\ last.claims.email.cs # AsStr(SessionEmail(last.sid))
    /\ Parse(last.claims.email.cs).addr # SessionEmail(last.sid)

(***************************************************************************)
(* Properties of email_address.rs.                                         *)
(***************************************************************************)
\* C11: for an input that parses, parsing the serialization of the result
\* succeeds and yields an equal EmailAddress.
C11_ParseIdempotent ==
    em.phase = "reparsed" => (em.again.ok /\ em.again.addr = em.parsed.addr)

\* An input with an '@' in its local part and upper case in its domain was
\* parsed, and so was the serialization, which differs from the input.
C11_Witness ==
    /\ em.phase = "reparsed" /\ em.again.ok
    /\ AsStr(em.parsed.addr) # em.input
    /\ Find(Local(em.parsed.addr), "@") # 0
    /\ Domain(em.parsed.addr) = <<"x", ".", "c", "o">>

\* C12: normalize_google applied to a result of normalize_google returns it
\* unchanged.
C12_GoogleIdempotent ==
    \A i \in 2..Len(em.addrs) : i + 1 <= Len(em.addrs) => em.addrs[i + 1] = em.addrs[i]

\* normalize_google changed the domain and the local part of an address and
\* was applied to its result.
C12_Witness ==
    /\ Len(em.addrs) = 3
    /\ Domain(em.addrs[1]) = GoogleMailCom /\ Domain(em.addrs[2]) = GMailCom
    /\ Local(em.addrs[2]) # Local(em.addrs[1])
    /\ Find(Local(em.addrs[1]), "+") # 0

\* The data-model invariants of an EmailAddress.
AddrInvariants(addr) ==
    /\ Local(addr) # <<>>
    /\ Domain(addr) # <<>>
    /\ \A i \in 1..Len(Domain(addr)) : ~IsInvalidDomainChar(Domain(addr)[i])
    /\ addr.local_end + 1 = RFind(AsStr(addr), "@")

\* C13: every EmailAddress that parse or normalize_google returns has a
\* non-empty local part, a non-empty domain without reserved characters, and
\* its separator offset at the rightmost '@' of the serialization.
C13_AddrInvariants == \A i \in 1..Len(em.addrs) : AddrInvariants(em.addrs[i])

(***************************************************************************)
(* Properties of webfinger.rs.                                             *)
(***************************************************************************)
\* The link's href is the URL of the broker's public_url.
RefersToBroker(link) == link.href = UrlParse(wf.app.public_url).url

\* C14: no list of links that query() returns holds a link whose href equals
\* the broker's configured public URL.
C14_NoSelfLink ==
    (wf.phase = "returned" /\ wf.result.ok) =>
        \A i \in 1..Len(wf.result.links) : ~RefersToBroker(wf.result.links[i])

LastTokenFailure ==
    /\ last.op = "callback"
    /\ last.fetches = 2
    /\ Contains(CheckOrder, last.failed)

RECURSIVE SplitNewline(_)
SplitNewline(s) ==
    LET p == Find(s, "\n")
    IN IF p = 0 THEN <<s>>
       ELSE <<SubSeq(s, 1, p - 1)>> \o SplitNewline(SubSeq(s, p + 1, Len(s)))

\* The lines of the request, as the endpoint reads them.
InputLines == Lines(FromUtf8Lossy(nz.body))

\* C17 as stated: the response has as many lines as the request, and its
\* i-th line is the normalized address of the request's i-th line, or empty.
C17_SameLineCount ==
    nz.phase = "responded" =>
        /\ Len(Lines(nz.result)) = Len(InputLines)
        /\ \A i \in 1..Len(InputLines) :
               Lines(nz.result)[i] = IF Parse(InputLines[i]).ok
                                     THEN AsStr(Parse(InputLines[i]).addr)
                                     ELSE <<>>

\* C17: the response is the results of the request's lines joined by
\* newlines: for a request of at least one line, split at its newlines it
\* has one piece for every line of the request, in order, the i-th being the
\* normalized address of the i-th line or empty when that line does not
\* parse; for a request of no line it is empty.
C17_JoinedResults ==
    nz.phase = "responded" =>
        IF InputLines = <<>> THEN nz.result = <<>>
        ELSE /\ Len(SplitNewline(nz.result)) = Len(InputLines)
             /\ \A i \in 1..Len(InputLines) :
                    SplitNewline(nz.result)[i] = IF Parse(InputLines[i]).ok
                                                 THEN AsStr(Parse(InputLines[i]).addr)
                                                 ELSE <<>>

\* A request of two lines, an address that normalization changes and a line
\* that does not parse, answered.
C17_Witness ==
    /\ nz.phase = "responded"
    /\ nz.body = <<"A", "@", "X", ".", "c", "o", "\r", "\n", "b">>
    /\ nz.result = <<"a", "@", "x", ".", "c", "o", "\n">>

(***************************************************************************)
(* Properties of the entry of callback().                                  *)
(***************************************************************************)
\* An auth() persisted the BridgeData as the OIDC session of this id.
PersistedBy(sid, bridge_data) ==
    /\ sid \in SessionIds
    /\ won[sid] # <<>>
    /\ won[sid][1] = bridge_data

\* C18: callback() goes on to its fetches, and issues a token, only for a
\* state under which an auth() persisted OIDC BridgeData, and with that data;
\* when the state is absent, the session cannot be loaded or the session is
\* another bridge's, it fails having fetched nothing and issued nothing.
C18_OnlyPersistedOidc ==
    /\ \A c \in DOMAIN cbs :
           cbs[c].pc # "idle" => PersistedBy(cbs[c].sid, cbs[c].bridge_data)
    /\ \A sid \in SessionIds : issued[sid] > 0 => won[sid] # <<>>
    /\ LastIssued => PersistedBy(last.sid, last.bridge_data)
    /\ (last.op = "callback" /\ last.fetches = 0) =>
           last.result \in {"ProviderInput", "SessionError"}
    /\ (last.op = "callback" /\ last.failed \in {"state", "load", "session"}) =>
           /\ last.fetches = 0
           /\ last.result \in {"ProviderInput", "SessionError"}
           /\ last.bridge_data = NoOidcData

\* A callback for a state whose session another bridge holds: it failed
\* before any fetch, and nothing was issued for the session.
C18_Witness ==
    /\ last.op = "callback"
    /\ last.failed = "session"
    /\ last.fetches = 0
    /\ last.sid \in SessionIds
    /\ issued[last.sid] = 0
    /\ won[last.sid] = <<>>

(***************************************************************************)
(* Properties of auth() for Google links.                                  *)
(***************************************************************************)
\* The last call of auth() returned, and was for a Google link.
LastGoogleAuth == last.op = "auth" /\ last.link.rel = "Google"

\* auth() returned before fetch_config and save_session.
ReturnedEarly == last.fetches = 0 /\ last.save = "none"

\* The redirect of the last call is for the configured Google client and
\* the pinned origin, in what was persisted and in what was sent.
GoogleRedirectPinned ==
    /\ app_google.some
    /\ ParseOidcHref(last.link.href) = SomeStr(GOOGLE_IDP_ORIGIN)
    /\ last.bridge_data.client_id = app_google.v
    /\ last.url.client_id = app_google.v
    /\ sessions[last.sid].bridge.variant = "Oidc"
    /\ sessions[last.sid].bridge.oidc.client_id = app_google.v

\* C19 as stated: a redirect for a Google link is for the configured client
\* id and the pinned origin; with no Google configuration auth() fails with
\* ProviderCancelled, and with another origin with Provider, in both cases
\* before any fetch or save.
C19_AsStated ==
    LastGoogleAuth =>
        /\ last.result = "Redirect" => GoogleRedirectPinned
        /\ ~app_google.some => (last.result = "ProviderCancelled" /\ ReturnedEarly)
        /\ (app_google.some /\ ParseOidcHref(last.link.href) # SomeStr(GOOGLE_IDP_ORIGIN)) =>
               (last.result = "Provider" /\ ReturnedEarly)

\* C19: a redirect for a Google link is for the configured client id and the
\* pinned origin.  A link whose href fails validation fails with Provider
\* whatever is configured; a link whose href passes it fails with
\* ProviderCancelled when no Google client is configured, and with Provider
\* when one is and the origin is not the pinned one; all three before any
\* fetch or save.
C19_GooglePinned ==
    LastGoogleAuth =>
        /\ last.result = "Redirect" => GoogleRedirectPinned
        /\ ~ParseOidcHref(last.link.href).some =>
               (last.result = "Provider" /\ ReturnedEarly)
        /\ (ParseOidcHref(last.link.href).some /\ ~app_google.some) =>
               (last.result = "ProviderCancelled" /\ ReturnedEarly)
        /\ (ParseOidcHref(last.link.href).some /\ app_google.some
              /\ ParseOidcHref(last.link.href).v # GOOGLE_IDP_ORIGIN) =>
               (last.result = "Provider" /\ ReturnedEarly)

\* A redirect for a Google link, with the configured client id.
C19_Witness ==
    /\ LastGoogleAuth
    /\ last.result = "Redirect"
    /\ last.url.client_id = GoogleClientId
    /\ last.fetches = 1

(***************************************************************************)
(* Properties of the schemes of provider URLs.                             *)
(***************************************************************************)
\* Both endpoints of a configuration use https.
HttpsSchemes == <<"https", "https">>

\* C20: a redirect of auth() is for a link and a configuration whose URLs all
\* use https, callback() awaits the key set only for such a configuration,
\* and a Portier link or a received configuration with another scheme ends
\* the call with a Provider error.
C20_HttpsOnly ==
    /\ (last.op = "auth" /\ last.result = "Redirect") =>
           /\ last.link.rel = "Portier" => last.link.href.scheme = "https"
           /\ last.config = HttpsSchemes
           /\ last.url.endpoint.scheme = "https"
    /\ \A c \in DOMAIN cbs : cbs[c].pc = "keys" => cbs[c].config = HttpsSchemes
    /\ (last.op = "callback" /\ last.fetches = 2) => last.config = HttpsSchemes
    /\ (last.op = "auth" /\ last.link.rel = "Portier" /\ last.link.href.scheme # "https") =>
           (last.result = "Provider" /\ last.fetches = 0 /\ last.save = "none")
    /\ (last.op \in {"auth", "callback"} /\ last.fetches = 1
          /\ last.config \notin {NoSchemes, HttpsSchemes}) =>
           (last.result = "Provider" /\ last.save = "none")

\* A callback whose re-fetched configuration names a jwks_uri without https:
\* it failed with a Provider error and fetched no key set.
C20_Witness ==
    /\ last.op = "callback"
    /\ last.config = <<"https", "http">>
    /\ last.result = "Provider"
    /\ last.fetches = 1

(***************************************************************************)
(* Properties of the response mode auth() selects.                         *)
(***************************************************************************)
\* The last call of auth() received a configuration that passed the scheme
\* checks, and so went on to build the URL.
LastAuthBuilt == last.op = "auth" /\ last.fetches = 1 /\ last.config = <<"https", "https">>

\* The response modes the provider of the last call supports: those of its
\* document, fragment alone when the document names none.
LastModes == IF last.modes.some THEN last.modes.v ELSE <<"fragment">>

C22_AsStated ==
    (LastReached("iat") /\ last.claims.iat.t = "int") =>
        (last.failed # "iat" <=> last.claims.iat.i <= last.now + 30)

\* C22: the iat check passes exactly when iat - 30 can be computed in the
\* width of the claim and is at most now: a token issued up to 30 seconds in
\* the future passes, one issued later fails, and so does one whose iat is
\* within 30 of the least integer.
C22_IatLeeway ==
    (LastReached("iat") /\ last.claims.iat.t = "int") =>
        (last.failed # "iat" <=>
            /\ last.claims.iat.i >= IntMin + 30
            /\ last.claims.iat.i - 30 <= last.now)

\* A token issued exactly 30 seconds in the future, which passed the check.
C22_Witness ==
    /\ LastReached("iat")
    /\ last.claims.iat = JInt(last.now + 30)
    /\ last.failed # "iat"

(***************************************************************************)
(* Properties of the key selection of jwk_key_set_find.                    *)
(***************************************************************************)
\* The entry carries the kid of the token's header and use "sig".
CxSelectable(entry) == entry.kid = SomeKid(CxHeaderKid) /\ entry.use = SomeStr("sig")

\* The entry carries the kid of the token's header and another use, or none.
CxOtherUse(entry) == entry.kid = SomeKid(CxHeaderKid) /\ entry.use # SomeStr("sig")

\* C23: a token is verified only when exactly one entry of the key set has
\* its kid and use "sig", and then its signature is one by the key of that
\* entry; an entry with the kid and another or no use neither counts nor
\* lends its key.
C23_SigEntriesOnly ==
    cx.phase = "verified" =>
        /\ (CxHeaderNamesKid /\ CxSigCount(CxHeaderKid) # 1) => ~cx.result.ok
        /\ cx.result.ok =>
               /\ CxHeaderNamesKid
               /\ CxSigCount(CxHeaderKid) = 1
               /\ \A i \in 1..Len(CxEntries) :
                      CxSelectable(CxEntries[i]) =>
                          /\ CxEntries[i].n.some /\ CxEntries[i].e.some
                          /\ CxSignedBy([e |-> CxEntries[i].e.v.bytes,
                                         n |-> CxEntries[i].n.v.bytes])

\* A token verified against a key set that holds, next to the entry of use
\* "sig", an entry with the same kid and another use.
C23_Witness ==
    /\ cx.phase = "verified"
    /\ cx.result.ok
    /\ \E i \in 1..Len(CxEntries) : CxOtherUse(CxEntries[i])

(***************************************************************************)
(* Properties of the authorization URL.                                    *)
(***************************************************************************)
\* The last call of auth() returned the redirect.
LastRedirect == last.op = "auth" /\ last.result = "Redirect"

\* C24: the URL of a redirect carries as state the session id the BridgeData
\* was saved under, and as nonce and client_id those of the BridgeData in the
\* store; a callback that loads the session compares the token with the
\* same values.
C24_UrlMatchesStored ==
    LastRedirect =>
        /\ last.url.state = last.sid
        /\ sessions[last.url.state].bridge.variant = "Oidc"
        /\ last.url.nonce = sessions[last.url.state].bridge.oidc.nonce
        /\ last.url.client_id = sessions[last.url.state].bridge.oidc.client_id
        /\ \A c \in DOMAIN cbs :
               (cbs[c].pc # "idle" /\ cbs[c].sid = last.url.state) =>
                   /\ cbs[c].bridge_data.nonce = last.url.nonce
                   /\ cbs[c].bridge_data.client_id = last.url.client_id

\* The redirect of a Google flow, and a callback that has loaded its session
\* and awaits the key set.
C24_Witness ==
    /\ LastRedirect
    /\ last.link.rel = "Google"
    /\ \E c \in DOMAIN cbs : cbs[c].pc = "keys" /\ cbs[c].sid = last.url.state

(***************************************************************************)
(* Properties of the writes of auth() to the session store.                *)
(***************************************************************************)
\* This step is the return of a call of auth(): a flow leaves its fetch, or
\* a call returns before it.
AuthReturns ==
    \/ \E f \in DOMAIN flows : flows[f].pc = "fetching" /\ flows'[f].pc = "idle"
    \/ last' # last /\ last'.op = "auth"

\* This step stores OIDC BridgeData under the session id.
PersistsOidc(sid) ==
    /\ sessions[sid].bridge.variant # "Oidc"
    /\ sessions'[sid].bridge.variant = "Oidc"

\* C25: a call of auth() that returns an error leaves the session store as
\* it was; one that returns the redirect has stored its BridgeData under its
\* session id, which was unclaimed, and changed nothing else; and OIDC
\* BridgeData gets into the store in no other step.
C25_SaveIsLast ==
    [][/\ AuthReturns =>
            /\ last'.op = "auth"
            /\ IF last'.result = "Redirect"
               THEN /\ sessions[last'.sid].status = "Unstarted"
                    /\ sessions' = [sessions EXCEPT ![last'.sid] =
                                        [status |-> "AwaitingCallback",
                                         bridge |-> OidcBridge(last'.bridge_data)]]
               ELSE sessions' = sessions
       /\ \A sid \in DOMAIN sessions :
            PersistsOidc(sid) =>
                (AuthReturns /\ last'.result = "Redirect" /\ last'.sid = sid)]_vars

\* auth() returned Provider for a provider without a usable response mode,
\* and the session is still unclaimed.
C25_Witness ==
    /\ last.op = "auth"
    /\ last.result = "Provider"
    /\ last.fetches = 1
    /\ last.modes = SomeModes(<<"query">>)
    /\ sessions[last.sid].status = "Unstarted"

(***************************************************************************)
(* Properties of the leeway arithmetic at the ends of the integer range.   *)
(***************************************************************************)
\* C26: a token whose exp is within 30 of the greatest integer fails the exp
\* check, and one whose iat is within 30 of the least integer fails the iat
\* check: neither sum is taken around the end of the range.
C26_NoWrap ==
    /\ (LastReached("exp") /\ last.claims.exp.t = "int"
          /\ last.claims.exp.i > IntMax - 30) => last.failed = "exp"
    /\ (LastReached("iat") /\ last.claims.iat.t = "int"
          /\ last.claims.iat.i < IntMin + 30) => last.failed = "iat"

\* A token with the greatest exp there is, rejected on exp.
C26_Witness ==
    /\ LastReached("exp")
    /\ last.claims.exp = JInt(IntMax)
    /\ last.failed = "exp"

====
